---- MODULE Spec2Model ----
(***************************************************************************)
(* A model of the Solana wallet checker:                                   *)
(*   - WalletAnalyzer._classify_wallet           (specification SpecClassify) *)
(*   - TransactionMonitor, poll and push transport  (specification Spec)   *)
(*   - HolderAnalyzer similarity edges and grouping (specification SpecHolders) *)
(*   - HolderAnalyzer.calculate_risk_score         (specification SpecRisk) *)
(*   - HolderAnalyzer.get_token_holders         (specification SpecRetrieval) *)
(*   - WalletAnalyzer.analyze_wallet               (specification SpecWallet) *)
(*   - TransactionMonitor._extract_buyer_wallets  (specification SpecExtract) *)
(*   - the poll and push loop bodies side by side (specification SpecTransports) *)
(*   - grouping followed by the scoring of every holder (specification SpecGrouping) *)
(*   - the monitor under fair scheduling            (specification SpecLive) *)
(*   - the per-holder lookups of HolderAnalyzer      (specification SpecFan) *)
(*   - WalletCheckerBot.on_transaction_detected      (specification SpecBot) *)
(*   - WalletCheckerBot.run around the monitor       (specification SpecRun) *)
(***************************************************************************)
EXTENDS Integers, Sequences, FiniteSets, TLC

VARIABLES
    \* ---- WalletAnalyzer (wallet_analyzer.py)
    old_wallet_threshold,   \* self.old_wallet_threshold
    unique_token_count,     \* argument of _classify_wallet
    wallet_type,            \* its result, "none" before the call
    \* ---- TransactionMonitor (transaction_monitor.py)
    ledger,                 \* number of transactions of the watched token on chain
    _running,                \* self._running
    _processed_signatures,   \* self._processed_signatures
    pc,                     \* where start()'s coroutine is suspended
    use_websocket,          \* argument of start()
    signatures,             \* local list of _poll_transactions
    idx,                    \* position of its for loop
    signature,              \* signature being processed (0: none)
    buyers,                 \* buyers still to be handed to the callback
    subscribed_from,        \* ledger length when logsSubscribe was sent
    starts,                 \* number of start() calls so far
    _session,               \* self._session: None, open or closed
    run_pc,                 \* where WalletCheckerBot.run() is
    \* history of the monitor's effects
    fetches,                \* getTransaction requests issued, per signature
    calls,                  \* on_transaction invocations, per (signature, buyer)
    historic,               \* most recent signatures when start() was called
    primed_ok,              \* the priming fetch of this start() succeeded
    reported,               \* signatures passed to the callback since start()
    halted,                 \* transports whose loop saw the stop flag and exited
    \* ---- HolderAnalyzer (holder_analyzer.py)
    holders,                \* the holder list, with traded_tokens filled in
    patterns,               \* common_patterns, in insertion order
    groups,                 \* the wallet groups returned
    analysed,               \* analyze_holder_similarities has returned
    holders_risk_data,      \* holder['risk_data'] of every holder, once scored
    \* ---- HolderAnalyzer.calculate_risk_score
    holder,                 \* the holder scored
    all_holders,            \* the holder list it is scored against
    similarity_analysis,    \* the similarity analysis passed, or None
    risk_data,              \* the dictionary returned, None before the call
    \* ---- HolderAnalyzer.get_token_holders
    accounts,               \* the provider's largest accounts, with what the
                            \* owner lookup of each will answer
    holder_limit,           \* the number of holders requested
    ret_pc,                 \* where get_token_holders is
    acc_i,                  \* position of its loop over the accounts
    valid_holders,          \* its local list "holders"
    top_holders,            \* the list returned
    ret_error,              \* the exception that left get_token_holders
    \* ---- WalletAnalyzer.analyze_wallet
    wallet_txs,             \* the wallet's transactions, oldest first: the
                            \* mints each of them mentions
    total_tx,               \* analyze_wallet's total_tx
    slept,                  \* asyncio.sleep(0.1) has been awaited since the last
                            \* request for a transaction's detail
    wa_pc,                  \* where analyze_wallet is
    wa_signatures,          \* "signatures" of _count_unique_tokens_from_transactions
    scan_i,                 \* position of its scan loop
    unique_tokens,          \* its set unique_tokens
    initial_funder,         \* its initial_funder
    wallet_info,            \* the WalletInfo returned, None before
    \* history of the reconstruction
    sigs_failed,            \* the signature list could not be retrieved
    attempted,              \* transactions whose detail was requested in the scan
    fetched_ok,             \* those of them whose detail arrived
    tx_failed,              \* a request for a transaction's detail failed
    \* ---- TransactionMonitor._extract_buyer_wallets, called on its own
    transaction,            \* its argument
    extracted,              \* the list returned
    extract_done,           \* it has returned
    \* ---- the two transports of TransactionMonitor, given the same arrivals
    arrival,                \* the entry that arrives: its signature, the outcome of getTransaction
    arrived,                \* number of entries that have arrived
    poll_processed,         \* self._processed_signatures of the polling monitor
    push_processed,         \* self._processed_signatures of the subscribed monitor
    poll_decision,          \* what the body of the poll loop did with the entry
    push_decision,          \* what the body of the message loop did with it
    poll_handled,           \* the poll loop has dealt with the entry
    push_handled,           \* the message loop has dealt with it
    \* ---- the per-holder lookups of HolderAnalyzer (get_token_holders and
    \* ---- analyze_holder_similarities), request by request
    fan_ledger,             \* per holder, its transactions, oldest first
    fan_pc,                 \* where the caller of the two methods is
    purchase,               \* per holder, its _get_first_purchase_time coroutine
    history,                \* per holder, its _get_wallet_token_history coroutine
    fan_holders,            \* per holder, the fields the two methods set
    \* ---- WalletCheckerBot.on_transaction_detected (main.py), any number of
    \* ---- invocations at a time
    _analyzing,             \* self._analyzing
    invocations             \* per invocation: where it is, its buyer_wallet, how it ended

classifyVars == <<old_wallet_threshold, unique_token_count, wallet_type>>
monitorVars == <<ledger, _running, _processed_signatures, pc, use_websocket,
                 signatures, idx, signature, buyers, subscribed_from, starts,
                 _session, run_pc, fetches, calls, historic, primed_ok, reported,
                 halted>>
holderVars == <<holders, patterns, groups, analysed, holders_risk_data>>
riskVars == <<holder, all_holders, similarity_analysis, risk_data>>
retrievalVars == <<accounts, holder_limit, ret_pc, acc_i, valid_holders, top_holders,
                   ret_error>>
walletVars == <<wallet_txs, total_tx, slept, wa_pc, wa_signatures, scan_i, unique_tokens,
                initial_funder, wallet_info, sigs_failed, attempted, fetched_ok,
                tx_failed>>
extractVars == <<transaction, extracted, extract_done>>
transportVars == <<arrival, arrived, poll_processed, push_processed, poll_decision,
                   push_decision, poll_handled, push_handled>>
fanVars == <<fan_ledger, fan_pc, purchase, history, fan_holders>>
botVars == <<_analyzing, invocations>>
vars == <<classifyVars, monitorVars, holderVars, riskVars, retrievalVars,
          walletVars, extractVars, transportVars, fanVars, botVars>>
\* what the monitor leaves alone
otherVars == <<classifyVars, holderVars, riskVars, retrievalVars, walletVars,
    extractVars, transportVars, fanVars, botVars>>
\* what the other components leave alone
notClassifyVars == <<monitorVars, holderVars, riskVars, retrievalVars, walletVars,
    extractVars, transportVars, fanVars, botVars>>
notHolderVars == <<classifyVars, monitorVars, riskVars, retrievalVars, walletVars,
    extractVars, transportVars, fanVars, botVars>>
notRiskVars == <<classifyVars, monitorVars, holderVars, retrievalVars, walletVars,
    extractVars, transportVars, fanVars, botVars>>
notRetrievalVars == <<classifyVars, monitorVars, holderVars, riskVars, walletVars,
    extractVars, transportVars, fanVars, botVars>>
notWalletVars == <<classifyVars, monitorVars, holderVars, riskVars, retrievalVars,
    extractVars, transportVars, fanVars, botVars>>
notExtractVars == <<classifyVars, monitorVars, holderVars, riskVars, retrievalVars,
    walletVars, transportVars, fanVars, botVars>>
notTransportVars == <<classifyVars, monitorVars, holderVars, riskVars, retrievalVars,
    walletVars, extractVars, fanVars, botVars>>
notFanVars == <<classifyVars, monitorVars, holderVars, riskVars, retrievalVars, walletVars, extractVars, transportVars, botVars>>
notBotVars == <<classifyVars, monitorVars, holderVars, riskVars, retrievalVars, walletVars, extractVars, transportVars, fanVars>>

Min(a, b) == IF a < b THEN a ELSE b

(***************************************************************************)
(* Bounds of the model.  The monitor's sizes are the source's scaled down: *)
(* MAX_PROCESSED stands for the 1000 of transaction_monitor.py:185,        *)
(* KEEP_PROCESSED for the 500 of line 187, POLL_LIMIT for the limit=20 of  *)
(* line 174 and PRIME_LIMIT for the limit=50 of line 297.  As in the       *)
(* source, PRIME_LIMIT >= POLL_LIMIT, KEEP_PROCESSED >= POLL_LIMIT and     *)
(* MAX_PROCESSED + 1 - PRIME_LIMIT >= POLL_LIMIT.                          *)
(***************************************************************************)
MAX_PROCESSED == 4
KEEP_PROCESSED == 2
POLL_LIMIT == 2
PRIME_LIMIT == 2
MaxSigs == 5
MaxInitial == 2
MaxStarts == 2
MaxCount == 7
MaxThreshold == 6
MaxHolders == 3
NumMints == 4
MaxAccounts == 3
MaxLimit == 3
\* SIG_LIMIT stands for the limit=100 of wallet_analyzer.py:164 and 283,
\* SCAN_LIMIT for the 50 of line 202; as in the source SCAN_LIMIT < SIG_LIMIT
SIG_LIMIT == 3
SCAN_LIMIT == 2
MaxWalletTxs == 4
MaxBalances == 2
MaxAmount == 2
MaxArrivals == 4
MaxGrouped == 4
MaxLiveSigs == 2
MaxFan == 2
MaxHolderTxs == 2
MaxInvocations == 3
MaxBuyers == 3
\* TOP_COMMON stands for the 10 of holder_analyzer.py:620, scaled down like
\* the mints
TOP_COMMON == 3

(***************************************************************************)
(* WalletAnalyzer._classify_wallet                                         *)
(***************************************************************************)
ClassifyLessOrEqual(c, t) ==
    IF c = 0 THEN "FRESH"
    ELSE IF c <= t THEN "SEMI_NEW"
    ELSE "OLD"

_classify_wallet(c, t) ==
    IF c = 0 THEN "FRESH"
    ELSE IF c < t THEN "SEMI_NEW"
    ELSE "OLD"

\* WalletAnalyzer(rpc_url, old_wallet_threshold) takes any int: main.py
\* passes int(os.getenv("OLD_WALLET_THRESHOLD", "5")) unchecked
Thresholds == (0 - 1)..MaxThreshold

ClassifyIdle ==
    /\ old_wallet_threshold \in Thresholds
    /\ unique_token_count \in 0..MaxCount
    /\ wallet_type = "none"

ClassifyWallet ==
    /\ wallet_type = "none"
    /\ wallet_type' = _classify_wallet(unique_token_count, old_wallet_threshold)
    /\ UNCHANGED <<old_wallet_threshold, unique_token_count>>
    /\ UNCHANGED notClassifyVars

(***************************************************************************)
(* TransactionMonitor: the provider                                        *)
(***************************************************************************)
Sigs == 1..MaxSigs
token_address == "TOKEN"
OTHER_MINT == "OTHER"
Owners == {"b1", "b2", "b3"}

\* getSignaturesForAddress(limit): newest first
Latest(limit) == [i \in 1..Min(limit, ledger) |-> ledger - i + 1]

Range(f) == {f[i] : i \in DOMAIN f}

Bal(m, o, a) == [mint |-> m, owner |-> o, amount |-> a]

\* getTransaction(s): the parsed transaction of signature s
Tx(s) ==
    CASE s % 4 = 1 -> [hasMeta |-> TRUE,
                       pre  |-> << >>,
                       post |-> <<Bal(token_address, "b1", 3)>>]
      [] s % 4 = 2 -> [hasMeta |-> TRUE,
                       pre  |-> <<Bal(token_address, "b1", 1), Bal(OTHER_MINT, "b3", 1),
                                  Bal(token_address, "b3", 9)>>,
                       post |-> <<Bal(token_address, "b1", 4), Bal(OTHER_MINT, "b3", 7),
                                  Bal(token_address, "b2", 2), Bal(token_address, "b3", 1)>>]
      [] s % 4 = 3 -> [hasMeta |-> TRUE,
                       pre  |-> <<Bal(token_address, "b2", 5)>>,
                       post |-> <<Bal(token_address, "b2", 2), Bal(OTHER_MINT, "b2", 8)>>]
      [] OTHER -> [hasMeta |-> FALSE, pre |-> << >>, post |-> << >>]

(***************************************************************************)
(* TransactionMonitor._extract_buyer_wallets                               *)
(***************************************************************************)
MapPut(m, k, v) == [x \in (DOMAIN m) \cup {k} |-> IF x = k THEN v ELSE m[x]]
MapGet(m, k, d) == IF k \in DOMAIN m THEN m[k] ELSE d

RECURSIVE BalanceMap(_, _)
BalanceMap(bals, m) ==
    IF bals = << >> THEN m
    ELSE LET bal == Head(bals)
         IN  BalanceMap(Tail(bals),
                        IF bal.mint = token_address THEN MapPut(m, bal.owner, bal.amount)
                        ELSE m)

BuyerSet(tx) ==
    IF ~tx.hasMeta THEN {}
    ELSE LET pre_map == BalanceMap(tx.pre, << >>)
             post_map == BalanceMap(tx.post, << >>)
             all_owners == (DOMAIN pre_map) \cup (DOMAIN post_map)
         IN  {owner \in all_owners :
                 MapGet(post_map, owner, 0) > MapGet(pre_map, owner, 0)}

Orderings(S) ==
    {f \in [1..Cardinality(S) -> S] : \A i, j \in DOMAIN f : f[i] = f[j] => i = j}

\* the list is built by iterating a set: any order of the buyers
_extract_buyer_wallets(tx) == Orderings(BuyerSet(tx))

(***************************************************************************)
(* TransactionMonitor: start, stop, the two transport loops                *)
(***************************************************************************)
MonitorIdle ==
    /\ ledger \in 0..MaxInitial
    /\ _running = FALSE
    /\ _processed_signatures = {}
    /\ pc = "idle"
    /\ use_websocket = FALSE
    /\ signatures = << >>
    /\ idx = 0
    /\ signature = 0
    /\ buyers = << >>
    /\ subscribed_from = 0
    /\ starts = 0
    /\ _session = "None"
    /\ run_pc = "try"
    /\ fetches = [s \in Sigs |-> 0]
    /\ calls = [p \in Sigs \X Owners |-> 0]
    /\ historic = {}
    /\ primed_ok = FALSE
    /\ reported = {}
    /\ halted = {}

Bump(n) == Min(n + 1, 2)

\* where start()'s coroutine is suspended in _rpc_call
Requesting == {"priming", "poll_fetch", "poll_tx", "ws_tx"}

\* if self._session is None or self._session.closed:
\*     self._session = aiohttp.ClientSession()
_get_session == IF _session \in {"None", "closed"} THEN "open" ELSE _session

\* a step that issues a request begins with session = await self._get_session()
SessionStep ==
    _session' = IF pc' \in Requesting /\ pc' # pc THEN _get_session ELSE _session

\* a transaction of the watched token lands on chain
NewTx ==
    /\ ledger < MaxSigs
    /\ ledger' = ledger + 1
    /\ UNCHANGED <<_running, _processed_signatures, pc, use_websocket, signatures,
                   idx, signature, buyers, subscribed_from, starts, fetches,
                   calls, historic, primed_ok, reported, halted>>
    /\ SessionStep
    /\ UNCHANGED run_pc
    /\ UNCHANGED otherVars

\* start(use_websocket), up to the await of the priming fetch
Start ==
    /\ pc = "idle"
    /\ starts < MaxStarts
    /\ \E ws \in BOOLEAN : use_websocket' = ws
    /\ _running' = TRUE
    /\ pc' = "priming"
    /\ starts' = starts + 1
    /\ historic' = Range(Latest(PRIME_LIMIT))
    /\ primed_ok' = FALSE
    /\ reported' = {}
    /\ UNCHANGED <<ledger, _processed_signatures, signatures, idx, signature,
                   buyers, subscribed_from, fetches, calls, halted>>
    /\ SessionStep
    /\ UNCHANGED run_pc
    /\ UNCHANGED otherVars

\* the signatures a priming fetch with a limit below the poll's would mark
PrimedShort == Range(Latest(POLL_LIMIT - 1))

\* {sig.get("signature") for sig in signatures}, of the limit=50 fetch
Primed == Range(Latest(PRIME_LIMIT))

AfterPriming == IF use_websocket THEN "ws_top" ELSE "poll_top"

\* the priming fetch returns: the set is replaced by the signatures returned
PrimingOk ==
    /\ pc = "priming"
    /\ _processed_signatures' = Primed
    /\ primed_ok' = TRUE
    /\ pc' = AfterPriming
    /\ UNCHANGED <<ledger, _running, use_websocket, signatures, idx, signature,
                   buyers, subscribed_from, starts, fetches, calls, historic,
                   reported, halted>>
    /\ SessionStep
    /\ UNCHANGED run_pc
    /\ UNCHANGED otherVars

\* the priming fetch raises RuntimeError: a warning, the set is left as it was
PrimingFail ==
    /\ pc = "priming"
    /\ pc' = AfterPriming
    /\ UNCHANGED <<ledger, _running, _processed_signatures, use_websocket,
                   signatures, idx, signature, buyers, subscribed_from, starts,
                   fetches, calls, historic, primed_ok, reported, halted>>
    /\ SessionStep
    /\ UNCHANGED run_pc
    /\ UNCHANGED otherVars

\* _rpc_call turns aiohttp.ClientError into RuntimeError (lines 78-85); the
\* total timeout of the session (aiohttp.ClientSession() at line 51: 5 min)
\* ends a request with asyncio.TimeoutError, which is no ClientError and
\* leaves _rpc_call as it is.  Here it leaves start() as well.
PrimingTimeout ==
    /\ pc = "priming"
    /\ pc' = "idle"
    /\ UNCHANGED <<ledger, _running, _processed_signatures, use_websocket,
                   signatures, idx, signature, buyers, subscribed_from, starts,
                   fetches, calls, historic, primed_ok, reported, halted>>
    /\ SessionStep
    /\ UNCHANGED run_pc
    /\ UNCHANGED otherVars

\* stop(): called from the signal handler, between any two steps of the loop
Stop ==
    /\ _running
    /\ _running' = FALSE
    /\ UNCHANGED <<ledger, _processed_signatures, pc, use_websocket, signatures,
                   idx, signature, buyers, subscribed_from, starts, fetches,
                   calls, historic, primed_ok, reported, halted>>
    /\ SessionStep
    /\ UNCHANGED run_pc
    /\ UNCHANGED otherVars

(***************************************************************************)
(* WalletCheckerBot.run: monitor.start() awaited in a try block, the       *)
(* cleanup in its finally clause                                           *)
(***************************************************************************)
\* await self.monitor.start(use_websocket=use_websocket)
RunStart ==
    /\ run_pc = "try"
    /\ starts = 0
    /\ Start

\* start() has returned or raised: the finally clause is reached
StartEndedOrRunning == starts > 0

StartEnded == starts > 0 /\ pc = "idle"

\* if self._session and not self._session.closed: await self._session.close()
close == IF _session = "open" THEN "closed" ELSE _session

\* finally: self.monitor.stop(); await self.monitor.close()
RunCleanup ==
    /\ run_pc = "try"
    /\ StartEnded
    /\ _running' = FALSE
    /\ _session' = close
    /\ run_pc' = "finished"
    /\ UNCHANGED <<ledger, _processed_signatures, pc, use_websocket, signatures,
                   idx, signature, buyers, subscribed_from, starts, fetches,
                   calls, historic, primed_ok, reported, halted>>
    /\ UNCHANGED otherVars

(***************************************************************************)
(* TransactionMonitor._poll_transactions                                   *)
(***************************************************************************)
\* list(self._processed_signatures)[-500:] takes the tail of the set's
\* iteration order, which is the hash order of the strings: any 500 of them
\* the trim taken as soon as the set has reached the ceiling
TrimmedAtCeiling(S) ==
    IF Cardinality(S) >= MAX_PROCESSED
    THEN {K \in SUBSET S : Cardinality(K) = KEEP_PROCESSED}
    ELSE {S}

Trimmed(S) ==
    IF Cardinality(S) > MAX_PROCESSED
    THEN {K \in SUBSET S : Cardinality(K) = KEEP_PROCESSED}
    ELSE {S}

\* the poll loop with "while True": the stop flag is never looked at
PollTopIgnoringStop ==
    /\ pc = "poll_top"
    /\ pc' = "poll_fetch"
    /\ UNCHANGED <<ledger, _running, _processed_signatures, use_websocket,
                   signatures, idx, signature, buyers, subscribed_from, starts,
                   fetches, calls, historic, primed_ok, reported, halted>>
    /\ SessionStep
    /\ UNCHANGED run_pc
    /\ UNCHANGED otherVars

\* while self._running: ... signatures = await self._get_signatures_for_token(limit=20)
PollTop ==
    /\ pc = "poll_top"
    /\ \/ /\ ~_running
          /\ pc' = "idle"
          /\ halted' = halted \cup {"poll"}
       \/ /\ _running
          /\ pc' = "poll_fetch"
          /\ UNCHANGED halted
    /\ UNCHANGED <<ledger, _running, _processed_signatures, use_websocket,
                   signatures, idx, signature, buyers, subscribed_from, starts,
                   fetches, calls, historic, primed_ok, reported>>
    /\ SessionStep
    /\ UNCHANGED run_pc
    /\ UNCHANGED otherVars

PollSignaturesOk ==
    /\ pc = "poll_fetch"
    /\ signatures' = Latest(POLL_LIMIT)
    /\ idx' = 1
    /\ pc' = "poll_for"
    /\ UNCHANGED <<ledger, _running, _processed_signatures, use_websocket,
                   signature, buyers, subscribed_from, starts, fetches, calls,
                   historic, primed_ok, reported, halted>>
    /\ SessionStep
    /\ UNCHANGED run_pc
    /\ UNCHANGED otherVars

\* except RuntimeError: print, sleep(poll_interval)
PollSignaturesFail ==
    /\ pc = "poll_fetch"
    /\ pc' = "poll_sleep"
    /\ UNCHANGED <<ledger, _running, _processed_signatures, use_websocket,
                   signatures, idx, signature, buyers, subscribed_from, starts,
                   fetches, calls, historic, primed_ok, reported, halted>>
    /\ SessionStep
    /\ UNCHANGED run_pc
    /\ UNCHANGED otherVars

\* the request ends with asyncio.TimeoutError: neither "except RuntimeError"
\* (line 206) nor "except asyncio.CancelledError" (line 209) names it, and it
\* leaves _poll_transactions and start()
PollSignaturesTimeout ==
    /\ pc = "poll_fetch"
    /\ pc' = "idle"
    /\ UNCHANGED <<ledger, _running, _processed_signatures, use_websocket,
                   signatures, idx, signature, buyers, subscribed_from, starts,
                   fetches, calls, historic, primed_ok, reported, halted>>
    /\ SessionStep
    /\ UNCHANGED run_pc
    /\ UNCHANGED otherVars

\* one turn of "for sig_info in signatures", up to the await of getTransaction
PollNext ==
    /\ pc = "poll_for"
    /\ \/ /\ idx > Len(signatures)
          /\ pc' = "poll_sleep"
          /\ UNCHANGED <<_processed_signatures, idx, signature, fetches>>
       \/ /\ idx <= Len(signatures)
          /\ signatures[idx] \in _processed_signatures
          /\ idx' = idx + 1
          /\ UNCHANGED <<_processed_signatures, pc, signature, fetches>>
       \/ /\ idx <= Len(signatures)
          /\ signatures[idx] \notin _processed_signatures
          /\ \E K \in Trimmed(_processed_signatures \cup {signatures[idx]}) :
                 _processed_signatures' = K
          /\ signature' = signatures[idx]
          /\ fetches' = [fetches EXCEPT ![signatures[idx]] = Bump(@)]
          /\ pc' = "poll_tx"
          /\ UNCHANGED idx
    /\ UNCHANGED <<ledger, _running, use_websocket, signatures, buyers,
                   subscribed_from, starts, calls, historic, primed_ok,
                   reported, halted>>
    /\ SessionStep
    /\ UNCHANGED run_pc
    /\ UNCHANGED otherVars

\* tx = await self._get_transaction(signature); buyers = self._extract_buyer_wallets(tx)
PollTxOk ==
    /\ pc = "poll_tx"
    /\ \E bs \in _extract_buyer_wallets(Tx(signature)) :
          /\ buyers' = bs
          /\ IF bs = << >>
             THEN /\ pc' = "poll_for"
                  /\ idx' = idx + 1
                  /\ signature' = 0
             ELSE /\ pc' = "poll_cb"
                  /\ UNCHANGED <<idx, signature>>
    /\ UNCHANGED <<ledger, _running, _processed_signatures, use_websocket,
                   signatures, subscribed_from, starts, fetches, calls,
                   historic, primed_ok, reported, halted>>
    /\ SessionStep
    /\ UNCHANGED run_pc
    /\ UNCHANGED otherVars

\* the result is null ("if tx:" is false), or the call raises RuntimeError,
\* which the except of line 201 prints: on to the next signature
PollTxNone ==
    /\ pc = "poll_tx"
    /\ pc' = "poll_for"
    /\ idx' = idx + 1
    /\ signature' = 0
    /\ UNCHANGED <<ledger, _running, _processed_signatures, use_websocket,
                   signatures, buyers, subscribed_from, starts, fetches, calls,
                   historic, primed_ok, reported, halted>>
    /\ SessionStep
    /\ UNCHANGED run_pc
    /\ UNCHANGED otherVars

\* getTransaction ends with asyncio.TimeoutError, which the except of line
\* 201 does not name: it leaves the for loop, the while loop and start()
PollTxTimeout ==
    /\ pc = "poll_tx"
    /\ pc' = "idle"
    /\ signature' = 0
    /\ UNCHANGED <<ledger, _running, _processed_signatures, use_websocket,
                   signatures, idx, buyers, subscribed_from, starts,
                   fetches, calls, historic, primed_ok, reported, halted>>
    /\ SessionStep
    /\ UNCHANGED run_pc
    /\ UNCHANGED otherVars

\* await self.on_transaction(buyer, signature, self.token_address): the
\* callback returns, or raises RuntimeError, which the same except catches
PollCallback ==
    /\ pc = "poll_cb"
    /\ calls' = [calls EXCEPT ![<<signature, Head(buyers)>>] = Bump(@)]
    /\ reported' = reported \cup {signature}
    /\ \E raised \in BOOLEAN :
          IF raised \/ Tail(buyers) = << >>
          THEN /\ buyers' = << >>
               /\ pc' = "poll_for"
               /\ idx' = idx + 1
               /\ signature' = 0
          ELSE /\ buyers' = Tail(buyers)
               /\ UNCHANGED <<pc, idx, signature>>
    /\ UNCHANGED <<ledger, _running, _processed_signatures, use_websocket,
                   signatures, subscribed_from, starts, fetches, historic,
                   primed_ok, halted>>
    /\ SessionStep
    /\ UNCHANGED run_pc
    /\ UNCHANGED otherVars

\* await asyncio.sleep(self.poll_interval)
PollSleepDone ==
    /\ pc = "poll_sleep"
    /\ pc' = "poll_top"
    /\ UNCHANGED <<ledger, _running, _processed_signatures, use_websocket,
                   signatures, idx, signature, buyers, subscribed_from, starts,
                   fetches, calls, historic, primed_ok, reported, halted>>
    /\ SessionStep
    /\ UNCHANGED run_pc
    /\ UNCHANGED otherVars

(***************************************************************************)
(* TransactionMonitor._websocket_subscribe                                 *)
(***************************************************************************)
\* while self._running: ... websockets.connect(...)
WsTop ==
    /\ pc = "ws_top"
    /\ \/ /\ ~_running
          /\ pc' = "idle"
          /\ halted' = halted \cup {"push"}
       \/ /\ _running
          /\ pc' = "ws_connecting"
          /\ UNCHANGED halted
    /\ UNCHANGED <<ledger, _running, _processed_signatures, use_websocket,
                   signatures, idx, signature, buyers, subscribed_from, starts,
                   fetches, calls, historic, primed_ok, reported>>
    /\ SessionStep
    /\ UNCHANGED run_pc
    /\ UNCHANGED otherVars

\* the connection is up and logsSubscribe is sent: the provider notifies the
\* transactions that land from now on
WsConnected ==
    /\ pc = "ws_connecting"
    /\ subscribed_from' = ledger
    /\ pc' = "ws_recv"
    /\ UNCHANGED <<ledger, _running, _processed_signatures, use_websocket,
                   signatures, idx, signature, buyers, starts, fetches, calls,
                   historic, primed_ok, reported, halted>>
    /\ SessionStep
    /\ UNCHANGED run_pc
    /\ UNCHANGED otherVars

\* How a connection attempt or an established stream can end.  The handlers
\* of lines 275-282 cover ConnectionClosed, OSError and TimeoutError; "async
\* for message in ws" ends without an exception when the peer closes the
\* connection normally (close code 1000 or 1001), and a rejected opening
\* handshake raises InvalidHandshake, which is neither of the three.
ConnectFailures == {"OSError", "TimeoutError", "InvalidHandshake"}
StreamEnds == {"ConnectionClosedError", "ConnectionClosedOK"}

\* where the subscribe loop continues after the stream ended with `how`
AfterStreamEnd(how) ==
    IF how \in {"ConnectionClosedError", "OSError", "TimeoutError"}
    THEN IF _running THEN "ws_sleep" ELSE "ws_top"
    ELSE IF how = "ConnectionClosedOK" THEN "ws_top"
    ELSE "idle"

WsConnectFail ==
    /\ pc = "ws_connecting"
    /\ \E how \in ConnectFailures : pc' = AfterStreamEnd(how)
    /\ UNCHANGED <<ledger, _running, _processed_signatures, use_websocket,
                   signatures, idx, signature, buyers, subscribed_from, starts,
                   fetches, calls, historic, primed_ok, reported, halted>>
    /\ SessionStep
    /\ UNCHANGED run_pc
    /\ UNCHANGED otherVars

WsClosed ==
    /\ pc = "ws_recv"
    /\ \E how \in StreamEnds : pc' = AfterStreamEnd(how)
    /\ UNCHANGED <<ledger, _running, _processed_signatures, use_websocket,
                   signatures, idx, signature, buyers, subscribed_from, starts,
                   fetches, calls, historic, primed_ok, reported, halted>>
    /\ SessionStep
    /\ UNCHANGED run_pc
    /\ UNCHANGED otherVars

\* messages the provider can send: 0 is a message that is no logsNotification
\* (the subscription confirmation), s > 0 a notification of signature s
Messages == {0} \cup ((subscribed_from + 1)..ledger)

\* one turn of "async for message in ws", up to the await of getTransaction
WsMessage ==
    /\ pc = "ws_recv"
    /\ \E msg \in Messages :
          \/ /\ ~_running
             /\ pc' = "ws_top"
             /\ UNCHANGED <<_processed_signatures, signature, fetches>>
          \/ /\ _running
             /\ msg = 0 \/ msg \in _processed_signatures
             /\ UNCHANGED <<_processed_signatures, pc, signature, fetches>>
          \/ /\ _running
             /\ msg # 0
             /\ msg \notin _processed_signatures
             /\ _processed_signatures' = _processed_signatures \cup {msg}
             /\ signature' = msg
             /\ fetches' = [fetches EXCEPT ![msg] = Bump(@)]
             /\ pc' = "ws_tx"
    /\ UNCHANGED <<ledger, _running, use_websocket, signatures, idx, buyers,
                   subscribed_from, starts, calls, historic, primed_ok,
                   reported, halted>>
    /\ SessionStep
    /\ UNCHANGED run_pc
    /\ UNCHANGED otherVars

\* tx = await self._get_transaction(signature); buyers = self._extract_buyer_wallets(tx)
WsTxOk ==
    /\ pc = "ws_tx"
    /\ \E bs \in _extract_buyer_wallets(Tx(signature)) :
          /\ buyers' = bs
          /\ IF bs = << >>
             THEN /\ pc' = "ws_recv"
                  /\ signature' = 0
             ELSE /\ pc' = "ws_cb"
                  /\ UNCHANGED signature
    /\ UNCHANGED <<ledger, _running, _processed_signatures, use_websocket,
                   signatures, idx, subscribed_from, starts, fetches, calls,
                   historic, primed_ok, reported, halted>>
    /\ SessionStep
    /\ UNCHANGED run_pc
    /\ UNCHANGED otherVars

\* the result is null, or the call raises RuntimeError (except of line 269)
WsTxNone ==
    /\ pc = "ws_tx"
    /\ pc' = "ws_recv"
    /\ signature' = 0
    /\ UNCHANGED <<ledger, _running, _processed_signatures, use_websocket,
                   signatures, idx, buyers, subscribed_from, starts, fetches,
                   calls, historic, primed_ok, reported, halted>>
    /\ SessionStep
    /\ UNCHANGED run_pc
    /\ UNCHANGED otherVars

\* getTransaction ends with asyncio.TimeoutError: the except of line 269 does
\* not name it, the one of line 279 around the connection does
WsTxTimeout ==
    /\ pc = "ws_tx"
    /\ pc' = AfterStreamEnd("TimeoutError")
    /\ signature' = 0
    /\ UNCHANGED <<ledger, _running, _processed_signatures, use_websocket,
                   signatures, idx, buyers, subscribed_from, starts,
                   fetches, calls, historic, primed_ok, reported, halted>>
    /\ SessionStep
    /\ UNCHANGED run_pc
    /\ UNCHANGED otherVars

\* await self.on_transaction(buyer, signature, self.token_address)
WsCallback ==
    /\ pc = "ws_cb"
    /\ calls' = [calls EXCEPT ![<<signature, Head(buyers)>>] = Bump(@)]
    /\ reported' = reported \cup {signature}
    /\ \E raised \in BOOLEAN :
          IF raised \/ Tail(buyers) = << >>
          THEN /\ buyers' = << >>
               /\ pc' = "ws_recv"
               /\ signature' = 0
          ELSE /\ buyers' = Tail(buyers)
               /\ UNCHANGED <<pc, signature>>
    /\ UNCHANGED <<ledger, _running, _processed_signatures, use_websocket,
                   signatures, idx, subscribed_from, starts, fetches, historic,
                   primed_ok, halted>>
    /\ SessionStep
    /\ UNCHANGED run_pc
    /\ UNCHANGED otherVars

\* await asyncio.sleep(5)
WsSleepDone ==
    /\ pc = "ws_sleep"
    /\ pc' = "ws_top"
    /\ UNCHANGED <<ledger, _running, _processed_signatures, use_websocket,
                   signatures, idx, signature, buyers, subscribed_from, starts,
                   fetches, calls, historic, primed_ok, reported, halted>>
    /\ SessionStep
    /\ UNCHANGED run_pc
    /\ UNCHANGED otherVars

(***************************************************************************)
(* HolderAnalyzer.analyze_holder_similarities, from line 424 on: the       *)
(* holders carry the trading sets their history lookups returned           *)
(***************************************************************************)
Wallets == 1..MaxHolders
Mints == 1..NumMints
\* mints outside the enumerated ones, each traded by one holder at most in
\* the lists below
MINT_B == NumMints + 1
MINT_C == NumMints + 2
AllMints == Mints \cup {MINT_B, MINT_C}
\* the trading sets a history lookup can have returned: every set of the
\* enumerated mints, and two sets with a mint of their own
TradingSets == (SUBSET Mints) \cup {{1, 2, 3, MINT_B}, {MINT_C}}
\* "if len(common_tokens) >= 3"
MIN_COMMON == 3

\* the elements of a set in some order
RECURSIVE SetToSeq(_)
SetToSeq(S) ==
    IF S = {} THEN << >>
    ELSE LET x == CHOOSE y \in S : \A z \in S : y <= z
         IN  <<x>> \o SetToSeq(S \ {x})

Keys(P) == {P[k].key : k \in DOMAIN P}

\* the body of the inner loop, for holders i < j, with a threshold one too low
ComparePairLow(hs, i, j, P) ==
    LET tokens1 == hs[i].traded_tokens
        tokens2 == hs[j].traded_tokens
        common_tokens == tokens1 \cap tokens2
        similarity_key == {hs[i].owner, hs[j].owner}
    IN  IF /\ tokens1 # {}
           /\ tokens2 # {}
           /\ Cardinality(common_tokens) >= MIN_COMMON - 1
           /\ similarity_key \notin Keys(P)
        THEN Append(P, [key |-> similarity_key,
                        wallets |-> <<hs[i].owner, hs[j].owner>>,
                        common_tokens |-> common_tokens,
                        count |-> Cardinality(common_tokens)])
        ELSE P

\* the body of the inner loop, for holders i < j
ComparePair(hs, i, j, P) ==
    LET tokens1 == hs[i].traded_tokens
        tokens2 == hs[j].traded_tokens
        common_tokens == tokens1 \cap tokens2
        similarity_key == {hs[i].owner, hs[j].owner}
    IN  IF /\ tokens1 # {}
           /\ tokens2 # {}
           /\ Cardinality(common_tokens) >= MIN_COMMON
           /\ similarity_key \notin Keys(P)
        THEN Append(P, [key |-> similarity_key,
                        wallets |-> <<hs[i].owner, hs[j].owner>>,
                        common_tokens |-> common_tokens,
                        count |-> Cardinality(common_tokens)])
        ELSE P

\* for i, holder1 in enumerate(holders): for j, holder2 in enumerate(holders[i+1:], i+1)
RECURSIVE ComparePairs(_, _, _, _)
ComparePairs(hs, i, j, P) ==
    IF i > Len(hs) THEN P
    ELSE IF j > Len(hs) THEN ComparePairs(hs, i + 1, i + 2, P)
    ELSE ComparePairs(hs, i, j + 1, ComparePair(hs, i, j, P))

CommonPatterns(hs) == ComparePairs(hs, 1, 2, << >>)

(***************************************************************************)
(* HolderAnalyzer._group_similar_wallets                                   *)
(***************************************************************************)
\* wallet_connections: its keys in insertion order, and the set of each key
ConnAdd(conn, wallet, wallets) ==
    LET known == wallet \in Range(conn.keys)
        old == IF known THEN conn.of[wallet] ELSE {}
    IN  [keys |-> IF known THEN conn.keys ELSE Append(conn.keys, wallet),
         of   |-> [w \in Range(conn.keys) \cup {wallet} |->
                      IF w = wallet THEN (old \cup Range(wallets)) \ {wallet}
                      ELSE conn.of[w]]]

RECURSIVE WalletConnections(_, _)
WalletConnections(P, conn) ==
    IF P = << >> THEN conn
    ELSE LET wallets == Head(P).wallets
         IN  WalletConnections(Tail(P),
                 ConnAdd(ConnAdd(conn, wallets[1], wallets), wallets[2], wallets))

\* the while loop over the queue; the order in which the connected wallets of
\* a set are appended does not change the group found
RECURSIVE Bfs(_, _, _, _)
Bfs(queue, visited, group, conn) ==
    IF queue = << >> THEN [visited |-> visited, group |-> group]
    ELSE LET current == Head(queue)
         IN  IF current \in visited
             THEN Bfs(Tail(queue), visited, group, conn)
             ELSE LET seen == visited \cup {current}
                      connected == IF current \in DOMAIN conn.of
                                   THEN {c \in conn.of[current] : c \notin seen}
                                   ELSE {}
                  IN  Bfs(Tail(queue) \o SetToSeq(connected), seen,
                          group \cup {current}, conn)

RECURSIVE IntersectAll(_)
IntersectAll(sets) ==
    IF Len(sets) = 1 THEN Head(sets)
    ELSE Head(sets) \cap IntersectAll(Tail(sets))

\* the union where the code intersects
GroupCommonTokensUnion(hs, group) ==
    UNION {hs[i].traded_tokens : i \in {k \in DOMAIN hs : hs[k].owner \in group}}

\* set.intersection(*[h["traded_tokens"] for h in group_holders if h["traded_tokens"]])
GroupCommonTokens(hs, group) ==
    LET member == {i \in DOMAIN hs :
                      hs[i].owner \in group /\ hs[i].traded_tokens # {}}
    IN  IntersectAll([k \in 1..Cardinality(member) |->
                         hs[SetToSeq(member)[k]].traded_tokens])

\* a grouping that keeps the start wallet and its direct connections only
GroupOfDirect(wallet, visited, conn) ==
    LET group == ({wallet} \cup conn.of[wallet]) \ visited
    IN  [visited |-> visited \cup group, group |-> group]

GroupOf(wallet, visited, conn) == Bfs(<<wallet>>, visited, {}, conn)

\* for wallet in wallet_connections: ... if len(group) >= 2: groups.append(...)
RECURSIVE FindGroups(_, _, _, _, _)
FindGroups(keys, visited, found, conn, hs) ==
    IF keys = << >> THEN found
    ELSE IF Head(keys) \in visited
    THEN FindGroups(Tail(keys), visited, found, conn, hs)
    ELSE LET r == GroupOf(Head(keys), visited, conn)
             common == GroupCommonTokens(hs, r.group)
         IN  FindGroups(Tail(keys), r.visited,
                 IF Cardinality(r.group) >= 2
                 THEN Append(found, [wallets |-> r.group,
                                     wallet_count |-> Cardinality(r.group),
                                     common_tokens |-> common,
                                     common_token_count |-> Cardinality(common)])
                 ELSE found,
                 conn, hs)

\* groups.sort(key=lambda x: x["wallet_count"], reverse=True): a stable sort
RECURSIVE InsertByCount(_, _)
InsertByCount(sorted, g) ==
    IF sorted = << >> THEN <<g>>
    ELSE IF Head(sorted).wallet_count >= g.wallet_count
    THEN <<Head(sorted)>> \o InsertByCount(Tail(sorted), g)
    ELSE <<g>> \o sorted

RECURSIVE SortByCount(_)
SortByCount(gs) ==
    IF gs = << >> THEN << >>
    ELSE InsertByCount(SortByCount(SubSeq(gs, 1, Len(gs) - 1)), gs[Len(gs)])

\* list(common_tokens)[:10]: the first 10 elements of a set in its iteration
\* order, that is any 10 of them
Top(common) ==
    IF Cardinality(common) <= TOP_COMMON THEN {common}
    ELSE {T \in SUBSET common : Cardinality(T) = TOP_COMMON}

\* the group lists whose "common_tokens" are cut to the top ones
RECURSIVE TopCommonTokens(_)
TopCommonTokens(gs) ==
    IF gs = << >> THEN {<< >>}
    ELSE {<<[Head(gs) EXCEPT !.common_tokens = top]>> \o rest :
             top \in Top(Head(gs).common_tokens),
             rest \in TopCommonTokens(Tail(gs))}

\* the lists _group_similar_wallets can return
_group_similar_wallets(hs, P) ==
    LET conn == WalletConnections(P, [keys |-> << >>, of |-> << >>])
    IN  TopCommonTokens(SortByCount(FindGroups(conn.keys, {}, << >>, conn, hs)))

HolderLists ==
    [1..MaxHolders -> [owner : Wallets, traded_tokens : TradingSets]]

HoldersUnused ==
    /\ holders = << >>
    /\ patterns = << >>
    /\ groups = << >>
    /\ analysed = FALSE
    /\ holders_risk_data = << >>

HoldersIdle ==
    /\ holders \in HolderLists
    /\ patterns = << >>
    /\ groups = << >>
    /\ analysed = FALSE
    /\ holders_risk_data = << >>

AnalyzeHolderSimilarities ==
    /\ ~analysed
    /\ patterns' = CommonPatterns(holders)
    /\ groups' \in _group_similar_wallets(holders, CommonPatterns(holders))
    /\ analysed' = TRUE
    /\ UNCHANGED <<holders, holders_risk_data>>
    /\ UNCHANGED notHolderVars

(***************************************************************************)
(* HolderAnalyzer.calculate_risk_score                                     *)
(***************************************************************************)
\* Python's None, where a dictionary is expected
None == [none |-> TRUE]

RECURSIVE SumBalances(_)
SumBalances(hs) ==
    IF hs = << >> THEN 0 ELSE Head(hs).balance + SumBalances(Tail(hs))

\* Factor 1: token diversity
DiversityFactor(token_count) ==
    IF token_count = 0 THEN [points |-> 25, factors |-> <<"No trading history">>]
    ELSE IF token_count <= 2
    THEN [points |-> 20, factors |-> <<"Low token diversity">>]
    ELSE IF token_count <= 5
    THEN [points |-> 10, factors |-> <<"Limited token diversity">>]
    ELSE [points |-> 0, factors |-> << >>]

\* Factor 2: holder concentration.  holder_percentage is
\* balance / total_supply * 100 when total_supply > 0 and 0 otherwise;
\* "holder_percentage >= k" is compared here as 100 * balance >= k * total_supply
ConcentrationFactor(balance, total_supply) ==
    IF total_supply > 0 /\ 100 * balance >= 10 * total_supply
    THEN [points |-> 30, factors |-> <<"Large holder">>]
    ELSE IF total_supply > 0 /\ 100 * balance >= 5 * total_supply
    THEN [points |-> 20, factors |-> <<"Significant holder">>]
    ELSE IF total_supply > 0 /\ 100 * balance >= 2 * total_supply
    THEN [points |-> 10, factors |-> <<"Notable holder">>]
    ELSE [points |-> 0, factors |-> << >>]

\* the brackets with the second one asking for both conditions
GroupBracketsBoth(group) ==
    LET wallet_count == group.wallet_count
        common_count == group.common_token_count
    IN  IF common_count >= 7 /\ wallet_count >= 3
        THEN [points |-> 30, factors |-> <<"High coordination">>]
        ELSE IF common_count >= 5 /\ wallet_count >= 2
        THEN [points |-> 20, factors |-> <<"Moderate coordination">>]
        ELSE IF common_count >= 3
        THEN [points |-> 10, factors |-> <<"Possible coordination">>]
        ELSE [points |-> 0, factors |-> << >>]

\* the brackets of one group
GroupBrackets(group) ==
    LET wallet_count == group.wallet_count
        common_count == group.common_token_count
    IN  IF common_count >= 7 /\ wallet_count >= 3
        THEN [points |-> 30, factors |-> <<"High coordination">>]
        ELSE IF common_count >= 5 \/ wallet_count >= 2
        THEN [points |-> 20, factors |-> <<"Moderate coordination">>]
        ELSE IF common_count >= 3
        THEN [points |-> 10, factors |-> <<"Possible coordination">>]
        ELSE [points |-> 0, factors |-> << >>]

\* Factor 3: coordinated activity: the first group that holds the wallet
RECURSIVE CoordinationFactor(_, _)
CoordinationFactor(wallet, gs) ==
    IF gs = << >> THEN [points |-> 0, factors |-> << >>]
    ELSE IF wallet \in Head(gs).wallets THEN GroupBrackets(Head(gs))
    ELSE CoordinationFactor(wallet, Tail(gs))

\* Factor 4 with the first test on the trading count one too strict
MismatchFactorStrict(balance, token_count) ==
    IF balance > 1000000 /\ token_count < 1
    THEN [points |-> 15, factors |-> <<"Large holder with minimal trading activity">>]
    ELSE IF balance < 100 /\ token_count >= 10
    THEN [points |-> 10, factors |-> <<"Small holder with unusually high activity">>]
    ELSE [points |-> 0, factors |-> << >>]

\* Factor 4: suspicious patterns
MismatchFactor(balance, token_count) ==
    IF balance > 1000000 /\ token_count <= 1
    THEN [points |-> 15, factors |-> <<"Large holder with minimal trading activity">>]
    ELSE IF balance < 100 /\ token_count >= 10
    THEN [points |-> 10, factors |-> <<"Small holder with unusually high activity">>]
    ELSE [points |-> 0, factors |-> << >>]

\* the levels with the first bound exclusive
RiskLevelAbove(risk_score) ==
    IF risk_score > 70 THEN "CRITICAL"
    ELSE IF risk_score >= 50 THEN "HIGH"
    ELSE IF risk_score >= 30 THEN "MEDIUM"
    ELSE "LOW"

\* Determine risk level
RiskLevel(risk_score) ==
    IF risk_score >= 70 THEN "CRITICAL"
    ELSE IF risk_score >= 50 THEN "HIGH"
    ELSE IF risk_score >= 30 THEN "MEDIUM"
    ELSE "LOW"

calculate_risk_score(h, hs, analysis) ==
    LET wallet == h.owner
        balance == h.balance
        token_count == h.token_count
        total_supply == SumBalances(hs)
        f1 == DiversityFactor(token_count)
        f2 == ConcentrationFactor(balance, total_supply)
        f3 == IF analysis # None /\ analysis.groups # << >>
              THEN CoordinationFactor(wallet, analysis.groups)
              ELSE [points |-> 0, factors |-> << >>]
        f4 == MismatchFactor(balance, token_count)
        risk_score == f1.points + f2.points + f3.points + f4.points
    IN  [score |-> risk_score,
         level |-> RiskLevel(risk_score),
         factors |-> f1.factors \o f2.factors \o f3.factors \o f4.factors]

\* balances on both sides of every bracket of factors 2 and 4; a holder's
\* balance is positive
RiskBalances ==
    {50, 100, 900, 901, 1900, 1901, 4900, 4901,
     1000000, 1000001, 2000000, 14500000}

TokenCounts == {0, 1, 2, 3, 5, 6, 9, 10}

\* the holder scored is wallet 1, the first of the list
RiskGroups ==
    {[wallets |-> w, wallet_count |-> Cardinality(w), common_token_count |-> c] :
        w \in {{1}, {1, 2}, {1, 2, 3}, {2, 3}}, c \in {0, 3, 5, 7}}

SimilarityAnalyses ==
    {None} \cup {[groups |-> << >>]} \cup {[groups |-> <<g>>] : g \in RiskGroups}

RiskUnused ==
    /\ holder = [owner |-> 1, balance |-> 100, token_count |-> 0]
    /\ all_holders = <<holder>>
    /\ similarity_analysis = None
    /\ risk_data = None

RiskIdle ==
    /\ holder \in [owner : {1}, balance : RiskBalances, token_count : TokenCounts]
    /\ \E other \in [owner : {2}, balance : RiskBalances, token_count : {0}] :
          all_holders = <<holder, other>>
    /\ similarity_analysis \in SimilarityAnalyses
    /\ risk_data = None

CalculateRiskScore ==
    /\ risk_data = None
    /\ risk_data' = calculate_risk_score(holder, all_holders, similarity_analysis)
    /\ UNCHANGED <<holder, all_holders, similarity_analysis>>
    /\ UNCHANGED notRiskVars

(***************************************************************************)
(* analyze_holder_similarities followed by format_holders_output, which    *)
(* scores every holder against the groups found                            *)
(***************************************************************************)
GroupedWallets == 1..MaxGrouped

\* trading sets that give two separate groups ({1,2,3} twice and {4,5,6}
\* twice), a group joined by a bridge only ({1,2,3}, 1..6, {4,5,6}: no mint
\* common to the three) and a group of three with 7 mints in common
GroupedTradingSets == {{}, {1, 2, 3}, {4, 5, 6}, 1..6, 1..7}

\* the balance plays no part in the grouping: one value
GroupedHolderLists ==
    [1..MaxGrouped -> [owner : GroupedWallets, traded_tokens : GroupedTradingSets,
                       balance : {1000}]]

GroupingIdle ==
    /\ holders \in GroupedHolderLists
    /\ patterns = << >>
    /\ groups = << >>
    /\ analysed = FALSE
    /\ holders_risk_data = << >>

\* holder["token_count"] = len(tokens) (line 422)
Scored(h) ==
    [owner |-> h.owner, balance |-> h.balance,
     token_count |-> Cardinality(h.traded_tokens)]

\* for holder in holders:
\*     holder['risk_data'] = self.calculate_risk_score(holder, holders, similarity_analysis)
FormatHoldersOutput ==
    /\ analysed
    /\ holders_risk_data = << >>
    /\ holders_risk_data' =
          [i \in DOMAIN holders |->
              calculate_risk_score(Scored(holders[i]),
                                   [k \in DOMAIN holders |-> Scored(holders[k])],
                                   [groups |-> groups])]
    /\ UNCHANGED <<holders, patterns, groups, analysed>>
    /\ UNCHANGED notHolderVars

(***************************************************************************)
(* HolderAnalyzer.get_token_holders                                        *)
(***************************************************************************)
\* what getAccountInfo answers for a token account:
\*   "owner"        parsed account data with an owner that is kept
\*   "liquidity"    the owner is one of LIQUIDITY_PROGRAMS
\*   "short"        the owner has fewer than 32 characters
\*   "no_owner"     parsed account data without an owner
\*   "no_value"     an empty result, or a result without "value"
\*   "null_value"   {"context": ..., "value": null}: no such account
\*   "RuntimeError" _rpc_call raised (RPC error or network error)
Lookups ==
    {"owner", "liquidity", "short", "no_owner", "no_value", "null_value",
     "RuntimeError"}

\* an entry of getTokenLargestAccounts: its amount, and its owner lookup
AccountInfos == [amount : 0..2, lookup : Lookups]

RECURSIVE SeqsUpTo(_, _)
SeqsUpTo(S, n) ==
    IF n = 0 THEN {<< >>}
    ELSE LET shorter == SeqsUpTo(S, n - 1)
         IN  shorter \cup {Append(q, x) : q \in {r \in shorter : Len(r) = n - 1}, x \in S}

RetrievalUnused ==
    /\ accounts = << >>
    /\ holder_limit = 1
    /\ ret_pc = "idle"
    /\ acc_i = 0
    /\ valid_holders = << >>
    /\ top_holders = << >>
    /\ ret_error = "none"

RetrievalIdle ==
    /\ accounts \in SeqsUpTo(AccountInfos, MaxAccounts)
    /\ holder_limit \in 1..MaxLimit
    /\ ret_pc = "idle"
    /\ acc_i = 0
    /\ valid_holders = << >>
    /\ top_holders = << >>
    /\ ret_error = "none"

\* largest = await self._rpc_call("getTokenLargestAccounts", ...)
GetTokenLargestAccounts ==
    /\ ret_pc = "idle"
    /\ \/ /\ accounts = << >>
          /\ ret_pc' = "returned"
          /\ acc_i' = acc_i
       \/ /\ accounts # << >>
          /\ ret_pc' = "accounts"
          /\ acc_i' = 1
    /\ UNCHANGED <<accounts, holder_limit, valid_holders, top_holders, ret_error>>
    /\ UNCHANGED notRetrievalVars

\* the call itself fails: the RuntimeError leaves get_token_holders
GetTokenLargestAccountsFail ==
    /\ ret_pc = "idle"
    /\ ret_pc' = "raised"
    /\ ret_error' = "RuntimeError"
    /\ UNCHANGED <<accounts, holder_limit, acc_i, valid_holders, top_holders>>
    /\ UNCHANGED notRetrievalVars

\* what one pass of the loop body does with an account:
\*   amount <= 0, an empty result, a missing or filtered owner: continue;
\*   RuntimeError: caught by "except (KeyError, TypeError, ValueError,
\*   RuntimeError)": continue;
\*   account_data["value"] is None: account_data["value"].get raises
\*   AttributeError, which the except clause does not catch
AccountStep(account) ==
    IF account.amount <= 0 THEN "continue"
    ELSE IF account.lookup = "owner" THEN "append"
    ELSE IF account.lookup = "null_value" THEN "AttributeError"
    ELSE "continue"

\* for i, account_info in enumerate(accounts): one pass
ProcessAccount ==
    /\ ret_pc = "accounts"
    /\ acc_i <= Len(accounts)
    /\ LET step == AccountStep(accounts[acc_i])
       IN  \/ /\ step = "continue"
              /\ acc_i' = acc_i + 1
              /\ UNCHANGED <<valid_holders, ret_pc, ret_error>>
           \/ /\ step = "append"
              /\ valid_holders' = Append(valid_holders,
                     [token_account |-> acc_i, balance |-> accounts[acc_i].amount])
              /\ acc_i' = acc_i + 1
              /\ UNCHANGED <<ret_pc, ret_error>>
           \/ /\ step = "AttributeError"
              /\ ret_pc' = "raised"
              /\ ret_error' = "AttributeError"
              /\ UNCHANGED <<valid_holders, acc_i>>
    /\ UNCHANGED <<accounts, holder_limit, top_holders>>
    /\ UNCHANGED notRetrievalVars

\* holders.sort(key=lambda x: x["balance"], reverse=True): a stable sort
RECURSIVE InsertByBalance(_, _)
InsertByBalance(sorted, h) ==
    IF sorted = << >> THEN <<h>>
    ELSE IF Head(sorted).balance >= h.balance
    THEN <<Head(sorted)>> \o InsertByBalance(Tail(sorted), h)
    ELSE <<h>> \o sorted

RECURSIVE SortByBalance(_)
SortByBalance(hs) ==
    IF hs = << >> THEN << >>
    ELSE InsertByBalance(SortByBalance(SubSeq(hs, 1, Len(hs) - 1)), hs[Len(hs)])

\* holders[:limit]
TopHolders(hs, n) == SubSeq(hs, 1, Min(n, Len(hs)))

\* after the loop: return [] without holders; else sort, cut to the limit and
\* add the purchase times, whose lookups are gathered with
\* return_exceptions=True and only fill fields of the holders
ReturnTopHolders ==
    /\ ret_pc = "accounts"
    /\ acc_i > Len(accounts)
    /\ ret_pc' = "returned"
    /\ top_holders' = TopHolders(SortByBalance(valid_holders), holder_limit)
    /\ UNCHANGED <<accounts, holder_limit, acc_i, valid_holders, ret_error>>
    /\ UNCHANGED notRetrievalVars

(***************************************************************************)
(* WalletAnalyzer.analyze_wallet and _count_unique_tokens_from_transactions *)
(* Every _rpc_call either returns its result or raises RuntimeError (RPC   *)
(* error or network error).  The times of the transactions are not part of *)
(* the model.                                                              *)
(***************************************************************************)
\* the mints a transaction can mention: the current token and two others
WalletMints == {token_address, "X", "Y"}

WalletUnused ==
    /\ wallet_txs = << >>
    /\ total_tx = 0
    /\ slept = FALSE
    /\ wa_pc = "idle"
    /\ wa_signatures = << >>
    /\ scan_i = 0
    /\ unique_tokens = {}
    /\ initial_funder = "None"
    /\ wallet_info = None
    /\ sigs_failed = FALSE
    /\ attempted = {}
    /\ fetched_ok = {}
    /\ tx_failed = FALSE

WalletIdle ==
    /\ wallet_txs \in SeqsUpTo(SUBSET WalletMints, MaxWalletTxs)
    /\ total_tx = 0
    /\ slept = FALSE
    /\ wa_pc = "idle"
    /\ wa_signatures = << >>
    /\ scan_i = 0
    /\ unique_tokens = {}
    /\ initial_funder = "None"
    /\ wallet_info = None
    /\ sigs_failed = FALSE
    /\ attempted = {}
    /\ fetched_ok = {}
    /\ tx_failed = FALSE

\* get_signatures_for_address(address, limit): the newest first, each named
\* by its position in wallet_txs
WalletSignatures(n) ==
    [i \in 1..Min(n, Len(wallet_txs)) |-> Len(wallet_txs) - i + 1]

\* a transaction of the wallet becomes visible to the provider while
\* analyze_wallet is suspended in a request: the purchase that was notified
WalletNewTx ==
    /\ wa_pc \in {"oldest", "scan", "total_signatures", "balance"}
    /\ Len(wallet_txs) < MaxWalletTxs
    /\ wallet_txs' = Append(wallet_txs, {token_address})
    /\ UNCHANGED <<slept, total_tx, wa_pc, wa_signatures, scan_i, unique_tokens,
                   initial_funder, wallet_info, sigs_failed, attempted,
                   fetched_ok, tx_failed>>
    /\ UNCHANGED notWalletVars

\* signatures[:50]
ScanEnd == Min(SCAN_LIMIT, Len(wa_signatures))

\* signatures = await self.get_signatures_for_address(address, limit=100)
\* "if not signatures: return 0, None, None"
CountSignaturesOk ==
    /\ wa_pc = "idle"
    /\ wa_signatures' = WalletSignatures(SIG_LIMIT)
    /\ wa_pc' = IF wa_signatures' = << >> THEN "total_signatures" ELSE "oldest"
    /\ UNCHANGED <<slept, wallet_txs, total_tx, scan_i, unique_tokens, initial_funder, wallet_info,
                   sigs_failed, attempted, fetched_ok, tx_failed>>
    /\ UNCHANGED notWalletVars

\* the request fails: the outer "except RuntimeError: pass", then
\* "return len(unique_tokens), first_tx_time, initial_funder"
CountSignaturesFail ==
    /\ wa_pc = "idle"
    /\ sigs_failed' = TRUE
    /\ wa_pc' = "total_signatures"
    /\ UNCHANGED <<slept, wallet_txs, total_tx, wa_signatures, scan_i, unique_tokens, initial_funder,
                   wallet_info, attempted, fetched_ok, tx_failed>>
    /\ UNCHANGED notWalletVars

\* oldest_tx = await self.get_transaction(oldest_sig["signature"])
OldestTxOk ==
    /\ wa_pc = "oldest"
    /\ initial_funder' = "funder"
    /\ wa_pc' = "scan"
    /\ scan_i' = 1
    /\ UNCHANGED <<slept, wallet_txs, total_tx, wa_signatures, unique_tokens, wallet_info,
                   sigs_failed, attempted, fetched_ok, tx_failed>>
    /\ UNCHANGED notWalletVars

\* "except (RuntimeError, KeyError): pass"
OldestTxFail ==
    /\ wa_pc = "oldest"
    /\ tx_failed' = TRUE
    /\ wa_pc' = "scan"
    /\ scan_i' = 1
    /\ UNCHANGED <<slept, wallet_txs, total_tx, wa_signatures, unique_tokens, initial_funder,
                   wallet_info, sigs_failed, attempted, fetched_ok>>
    /\ UNCHANGED notWalletVars

\* where the scan is after the transaction at position i
AfterScanOf(i) == IF i + 1 > ScanEnd THEN "total_signatures" ELSE "scan"

\* for sig_info in signatures[:50]: the detail arrives; every mint of the
\* token balances other than current_token is added; then
\* "await asyncio.sleep(0.1)" at the end of the loop body
ScanTxOk ==
    /\ wa_pc = "scan"
    /\ scan_i <= ScanEnd
    /\ unique_tokens' = unique_tokens
                           \cup (wallet_txs[wa_signatures[scan_i]] \ {token_address})
    /\ attempted' = attempted \cup {scan_i}
    /\ fetched_ok' = fetched_ok \cup {scan_i}
    /\ scan_i' = scan_i + 1
    /\ wa_pc' = AfterScanOf(scan_i)
    /\ slept' = TRUE
    /\ UNCHANGED <<wallet_txs, total_tx, wa_signatures, initial_funder, wallet_info,
                   sigs_failed, tx_failed>>
    /\ UNCHANGED notWalletVars

\* the detail is null or has no "meta": "continue" (lines 205-206 and
\* 210-211), which leaves out the rest of the loop body
ScanTxEmpty ==
    /\ wa_pc = "scan"
    /\ scan_i <= ScanEnd
    /\ attempted' = attempted \cup {scan_i}
    /\ slept' = FALSE
    /\ scan_i' = scan_i + 1
    /\ wa_pc' = AfterScanOf(scan_i)
    /\ UNCHANGED <<wallet_txs, total_tx, wa_signatures, unique_tokens,
                   initial_funder, wallet_info, sigs_failed, fetched_ok, tx_failed>>
    /\ UNCHANGED notWalletVars

\* a failed request that ends the scan
ScanAbortedAt(i) == "total_signatures"

\* "except (RuntimeError, KeyError): continue"
ScanContinuesAt(i) == AfterScanOf(i)

ScanTxFail ==
    /\ wa_pc = "scan"
    /\ scan_i <= ScanEnd
    /\ attempted' = attempted \cup {scan_i}
    /\ tx_failed' = TRUE
    /\ scan_i' = scan_i + 1
    /\ wa_pc' = ScanContinuesAt(scan_i)
    /\ slept' = FALSE
    /\ UNCHANGED <<wallet_txs, total_tx, wa_signatures, unique_tokens, initial_funder,
                   wallet_info, sigs_failed, fetched_ok>>
    /\ UNCHANGED notWalletVars

\* analyze_wallet: signatures = await self.get_signatures_for_address(address, limit=100)
\* total_tx = len(signatures) if signatures else 0
TotalSignaturesOk ==
    /\ wa_pc = "total_signatures"
    /\ total_tx' = Len(WalletSignatures(SIG_LIMIT))
    /\ wa_pc' = "balance"
    /\ UNCHANGED <<slept, wallet_txs, wa_signatures, scan_i, unique_tokens, initial_funder,
                   wallet_info, sigs_failed, attempted, fetched_ok, tx_failed>>
    /\ UNCHANGED notWalletVars

\* no handler around this request: the RuntimeError leaves analyze_wallet
TotalSignaturesFail ==
    /\ wa_pc = "total_signatures"
    /\ wa_pc' = "raised"
    /\ UNCHANGED <<slept, wallet_txs, total_tx, wa_signatures, scan_i, unique_tokens, initial_funder,
                   wallet_info, sigs_failed, attempted, fetched_ok, tx_failed>>
    /\ UNCHANGED notWalletVars

\* getBalance, whose failure gives current_balance = None; then
\* _classify_wallet(unique_count) and the WalletInfo
ReturnWalletInfo ==
    /\ wa_pc = "balance"
    /\ \E current_balance \in {"None", "balance"} :
          wallet_info' =
              [wallet_type |-> _classify_wallet(Cardinality(unique_tokens),
                                                old_wallet_threshold),
               unique_token_count |-> Cardinality(unique_tokens),
               first_transaction_time |->
                   IF wa_signatures = << >> THEN "None" ELSE "time",
               initial_funder |-> initial_funder,
               current_balance |-> current_balance,
               total_transactions |-> total_tx]
    /\ wa_pc' = "returned"
    /\ UNCHANGED <<slept, wallet_txs, total_tx, wa_signatures, scan_i, unique_tokens, initial_funder,
                   sigs_failed, attempted, fetched_ok, tx_failed>>
    /\ UNCHANGED notWalletVars

(***************************************************************************)
(* TransactionMonitor._extract_buyer_wallets on any transaction            *)
(***************************************************************************)
\* the records of preTokenBalances and postTokenBalances: one per token
\* account of the transaction, so an owner with two accounts of a mint has
\* two records
BalanceRecords ==
    [mint : {token_address, OTHER_MINT}, owner : {"b1", "b2"}, amount : 0..MaxAmount]

Transactions ==
    {[hasMeta |-> FALSE, pre |-> << >>, post |-> << >>]}
        \cup [hasMeta : {TRUE},
              pre : SeqsUpTo(BalanceRecords, MaxBalances),
              post : SeqsUpTo(BalanceRecords, MaxBalances)]

ExtractUnused ==
    /\ transaction = [hasMeta |-> FALSE, pre |-> << >>, post |-> << >>]
    /\ extracted = << >>
    /\ extract_done = FALSE

ExtractIdle ==
    /\ transaction \in Transactions
    /\ extracted = << >>
    /\ extract_done = FALSE

ExtractBuyerWallets ==
    /\ ~extract_done
    /\ extracted' \in _extract_buyer_wallets(transaction)
    /\ extract_done' = TRUE
    /\ UNCHANGED transaction
    /\ UNCHANGED notExtractVars

(***************************************************************************)
(* The body of the poll loop and the body of the message loop, each on its *)
(* own monitor, given the same entries and the same getTransaction         *)
(* outcomes                                                                *)
(***************************************************************************)
\* sig_info.get("signature") / value.get("signature") of an entry that has
\* no signature: None
ABSENT == 0

\* an entry and the outcome of getTransaction for it
Arrivals == [sig : Sigs \cup {ABSENT}, rpc : {"ok", "error"}]

NoDecision == [skipped |-> FALSE, fetched |-> FALSE, callbacks |-> {}, raised |-> "none"]

\* "continue" / the condition of line 255 is false
Skipped == [skipped |-> TRUE, fetched |-> FALSE, callbacks |-> {}, raised |-> "none"]

\* on_transaction is awaited for every buyer of the transaction fetched;
\* getTransaction answers null for a signature it does not know, "if tx" is
\* then false
Callbacks(a) == IF a.sig = ABSENT THEN {} ELSE BuyerSet(Tx(a.sig))

\* lines 191-202: the fetch, the callbacks, and the handler of RuntimeError,
\* whose message takes signature[:20]: a TypeError when signature is None
PollFetch(a) ==
    IF a.rpc = "ok"
    THEN [skipped |-> FALSE, fetched |-> TRUE, callbacks |-> Callbacks(a),
          raised |-> "none"]
    ELSE [skipped |-> FALSE, fetched |-> TRUE, callbacks |-> {},
          raised |-> IF a.sig = ABSENT THEN "TypeError" ELSE "none"]

\* lines 259-270: the fetch, the callbacks, and the handler of RuntimeError
PushFetch(a) ==
    IF a.rpc = "ok"
    THEN [skipped |-> FALSE, fetched |-> TRUE, callbacks |-> Callbacks(a),
          raised |-> "none"]
    ELSE [skipped |-> FALSE, fetched |-> TRUE, callbacks |-> {}, raised |-> "none"]

TransportsUnused ==
    /\ arrival = [sig |-> ABSENT, rpc |-> "ok"]
    /\ arrived = 0
    /\ poll_processed = {}
    /\ push_processed = {}
    /\ poll_decision = NoDecision
    /\ push_decision = NoDecision
    /\ poll_handled = TRUE
    /\ push_handled = TRUE

\* both monitors have been started with the same priming fetch
TransportsIdle ==
    /\ arrival = [sig |-> ABSENT, rpc |-> "ok"]
    /\ arrived = 0
    /\ \E n \in 0..MaxInitial :
          /\ poll_processed = 1..n
          /\ push_processed = 1..n
    /\ poll_decision = NoDecision
    /\ push_decision = NoDecision
    /\ poll_handled = TRUE
    /\ push_handled = TRUE

\* the provider presents the next entry to both transports; a poll loop that
\* has ended with an exception takes no further entry
Arrive ==
    /\ poll_handled
    /\ push_handled
    /\ poll_decision.raised = "none"
    /\ arrived < MaxArrivals
    /\ arrived' = arrived + 1
    /\ \E a \in Arrivals : arrival' = a
    /\ poll_handled' = FALSE
    /\ push_handled' = FALSE
    /\ poll_decision' = NoDecision
    /\ push_decision' = NoDecision
    /\ UNCHANGED <<poll_processed, push_processed>>
    /\ UNCHANGED notTransportVars

\* one turn of "for sig_info in signatures" (lines 176-202)
PollHandle ==
    /\ ~poll_handled
    /\ \/ /\ arrival.sig \in poll_processed
          /\ poll_decision' = Skipped
          /\ UNCHANGED poll_processed
       \/ /\ arrival.sig \notin poll_processed
          /\ \E K \in Trimmed(poll_processed \cup {arrival.sig}) :
                 poll_processed' = K
          /\ poll_decision' = PollFetch(arrival)
    /\ poll_handled' = TRUE
    /\ UNCHANGED <<arrival, arrived, push_processed, push_decision, push_handled>>
    /\ UNCHANGED notTransportVars

\* one logsNotification of "async for message in ws" (lines 249-270)
PushHandle ==
    /\ ~push_handled
    /\ \/ /\ arrival.sig = ABSENT \/ arrival.sig \in push_processed
          /\ push_decision' = Skipped
          /\ UNCHANGED push_processed
       \/ /\ arrival.sig # ABSENT
          /\ arrival.sig \notin push_processed
          /\ push_processed' = push_processed \cup {arrival.sig}
          /\ push_decision' = PushFetch(arrival)
    /\ push_handled' = TRUE
    /\ UNCHANGED <<arrival, arrived, poll_processed, poll_decision, poll_handled>>
    /\ UNCHANGED notTransportVars

(***************************************************************************)
(* The per-holder lookups: get_token_holders gathers the first-purchase    *)
(* lookups, analyze_holder_similarities awaits the trading-history lookups *)
(***************************************************************************)
Fan == 1..MaxFan

\* a transaction of a holder: the other mint its token balances name for the
\* holder, and whether its postTokenBalances name the token for the holder
TxKinds == {[mint |-> 1, token |-> FALSE], [mint |-> 2, token |-> TRUE]}

FanLedgers == [Fan -> SeqsUpTo(TxKinds, MaxHolderTxs)]

\* purchase_time None; the block time of a holder's k-th transaction is k
NoTime == 0

Unknown == [text |-> "Unknown", of |-> NoTime]

\* purchase_time.strftime("%Y-%m-%d %H:%M:%S")
Strftime(t) == [text |-> "strftime", of |-> t]

\* a coroutine object that has not run yet
Created == [state |-> "created", i |-> 0, failed |-> FALSE, skipped |-> FALSE,
            raised |-> FALSE]

NewPurchase == [time |-> NoTime] @@ Created

NewHistory == [tokens |-> {}] @@ Created

NewHolder == [purchase_time |-> NoTime, purchase_time_str |-> [text |-> "unset", of |-> NoTime],
              traded_tokens |-> {}, token_count |-> 0]

FanUnused ==
    /\ fan_ledger = [h \in Fan |-> << >>]
    /\ fan_pc = "unused"
    /\ purchase = [h \in Fan |-> NewPurchase]
    /\ history = [h \in Fan |-> NewHistory]
    /\ fan_holders = [h \in Fan |-> NewHolder]

\* top_holders has been chosen (line 169)
FanIdle ==
    /\ fan_ledger \in FanLedgers
    /\ fan_pc = "top_holders"
    /\ purchase = [h \in Fan |-> NewPurchase]
    /\ history = [h \in Fan |-> NewHistory]
    /\ fan_holders = [h \in Fan |-> NewHolder]

\* a coroutine has returned or raised
Done(c) == c.state = "done"

\* the next signature of a lookup's loop, or the end of the loop
NextSignature(c, h) ==
    IF c.i < Len(fan_ledger[h])
    THEN [c EXCEPT !.state = "transaction", !.i = c.i + 1]
    ELSE [c EXCEPT !.state = "done"]

\* tasks = [...]; await asyncio.gather(*tasks, return_exceptions=True):
\* gather wraps every coroutine in a task and the caller is suspended
GatherPurchases ==
    /\ fan_pc = "top_holders"
    /\ fan_pc' = "gather"
    /\ UNCHANGED <<fan_ledger, purchase, history, fan_holders>>
    /\ UNCHANGED notFanVars

\* the event loop runs the tasks in the order gather created them, each up to
\* its first request: signatures = await self._rpc_call("getSignaturesForAddress")
PurchaseStart(h) ==
    /\ fan_pc = "gather"
    /\ purchase[h].state = "created"
    /\ \A k \in Fan : k < h => purchase[k].state # "created"
    /\ purchase' = [purchase EXCEPT ![h].state = "signatures"]
    /\ UNCHANGED <<fan_ledger, fan_pc, history, fan_holders>>
    /\ UNCHANGED notFanVars

\* the event loop runs every step that is ready, the first step of each task
\* gather created, before it takes a response from the network
Scheduled == \A k \in Fan : purchase[k].state # "created"

\* the list arrives; signatures.sort(key=slot); the loop takes the oldest
PurchaseSignaturesOk(h) ==
    /\ Scheduled
    /\ purchase[h].state = "signatures"
    /\ purchase' = [purchase EXCEPT ![h] = NextSignature(purchase[h], h)]
    /\ UNCHANGED <<fan_ledger, fan_pc, history, fan_holders>>
    /\ UNCHANGED notFanVars

\* except RuntimeError: return None (lines 692-693)
PurchaseSignaturesFail(h) ==
    /\ Scheduled
    /\ purchase[h].state = "signatures"
    /\ purchase' = [purchase EXCEPT ![h].state = "done", ![h].failed = TRUE]
    /\ UNCHANGED <<fan_ledger, fan_pc, history, fan_holders>>
    /\ UNCHANGED notFanVars

\* the request ends with an exception _rpc_call does not convert
\* (asyncio.TimeoutError of the session's total timeout): the task raises
PurchaseSignaturesTimeout(h) ==
    /\ Scheduled
    /\ purchase[h].state = "signatures"
    /\ purchase' = [purchase EXCEPT ![h].state = "done", ![h].failed = TRUE,
                                    ![h].raised = TRUE]
    /\ UNCHANGED <<fan_ledger, fan_pc, history, fan_holders>>
    /\ UNCHANGED notFanVars

\* the detail arrives: return datetime.fromtimestamp(block_time) when its
\* postTokenBalances name the token for the wallet, else the next signature
PurchaseTxOk(h) ==
    /\ purchase[h].state = "transaction"
    /\ purchase' =
          [purchase EXCEPT ![h] =
              IF fan_ledger[h][purchase[h].i].token
              THEN [purchase[h] EXCEPT !.state = "done", !.time = purchase[h].i]
              ELSE NextSignature(purchase[h], h)]
    /\ UNCHANGED <<fan_ledger, fan_pc, history, fan_holders>>
    /\ UNCHANGED notFanVars

\* except RuntimeError: continue (lines 687-688)
PurchaseTxFail(h) ==
    /\ purchase[h].state = "transaction"
    /\ purchase' = [purchase EXCEPT ![h] =
                       NextSignature([purchase[h] EXCEPT !.skipped = TRUE], h)]
    /\ UNCHANGED <<fan_ledger, fan_pc, history, fan_holders>>
    /\ UNCHANGED notFanVars

PurchaseTxTimeout(h) ==
    /\ purchase[h].state = "transaction"
    /\ purchase' = [purchase EXCEPT ![h].state = "done", ![h].failed = TRUE,
                                    ![h].raised = TRUE]
    /\ UNCHANGED <<fan_ledger, fan_pc, history, fan_holders>>
    /\ UNCHANGED notFanVars

\* what gather puts in purchase_times for a task, and lines 178-191 make of it
PurchaseFields(c, old) ==
    IF c.raised
    THEN [old EXCEPT !.purchase_time = NoTime, !.purchase_time_str = Unknown]
    ELSE [old EXCEPT !.purchase_time = c.time,
                     !.purchase_time_str =
                         IF c.time # NoTime THEN Strftime(c.time) ELSE Unknown]

\* gather returns once every task is done; the loop of lines 178-191;
\* return top_holders
JoinPurchases ==
    /\ fan_pc = "gather"
    /\ \A h \in Fan : Done(purchase[h])
    /\ fan_holders' = [h \in Fan |-> PurchaseFields(purchase[h], fan_holders[h])]
    /\ fan_pc' = "returned"
    /\ UNCHANGED <<fan_ledger, purchase, history>>
    /\ UNCHANGED notFanVars

\* analyze_holder_similarities: tasks = [...] builds the coroutine objects;
\* "for i, task in enumerate(tasks, 1): result = await task" runs each of
\* them when its turn comes, up to its first request
HistoryStart(h) ==
    /\ fan_pc \in {"returned", "histories"}
    /\ history[h].state = "created"
    /\ \A k \in Fan : k < h => Done(history[k])
    /\ fan_pc' = "histories"
    /\ history' = [history EXCEPT ![h].state = "signatures"]
    /\ UNCHANGED <<fan_ledger, purchase, fan_holders>>
    /\ UNCHANGED notFanVars

HistorySignaturesOk(h) ==
    /\ fan_pc = "histories"
    /\ history[h].state = "signatures"
    /\ history' = [history EXCEPT ![h] = NextSignature(history[h], h)]
    /\ UNCHANGED <<fan_ledger, fan_pc, purchase, fan_holders>>
    /\ UNCHANGED notFanVars

\* except RuntimeError: return set() (lines 382-383)
HistorySignaturesFail(h) ==
    /\ fan_pc = "histories"
    /\ history[h].state = "signatures"
    /\ history' = [history EXCEPT ![h].state = "done", ![h].failed = TRUE]
    /\ UNCHANGED <<fan_ledger, fan_pc, purchase, fan_holders>>
    /\ UNCHANGED notFanVars

\* an exception _rpc_call does not convert leaves the coroutine, and
\* "await task" raises it in analyze_holder_similarities
HistorySignaturesTimeout(h) ==
    /\ fan_pc = "histories"
    /\ history[h].state = "signatures"
    /\ history' = [history EXCEPT ![h].state = "done", ![h].failed = TRUE,
                                  ![h].raised = TRUE]
    /\ fan_pc' = "raised"
    /\ UNCHANGED <<fan_ledger, purchase, fan_holders>>
    /\ UNCHANGED notFanVars

\* the detail arrives: tokens.add(mint) for the mints of the wallet other
\* than exclude_token
HistoryTxOk(h) ==
    /\ fan_pc = "histories"
    /\ history[h].state = "transaction"
    /\ history' =
          [history EXCEPT ![h] =
              NextSignature([history[h] EXCEPT
                  !.tokens = @ \cup {fan_ledger[h][history[h].i].mint}], h)]
    /\ UNCHANGED <<fan_ledger, fan_pc, purchase, fan_holders>>
    /\ UNCHANGED notFanVars

\* except RuntimeError: continue (lines 376-378)
HistoryTxFail(h) ==
    /\ fan_pc = "histories"
    /\ history[h].state = "transaction"
    /\ history' = [history EXCEPT ![h] =
                      NextSignature([history[h] EXCEPT !.skipped = TRUE], h)]
    /\ UNCHANGED <<fan_ledger, fan_pc, purchase, fan_holders>>
    /\ UNCHANGED notFanVars

HistoryTxTimeout(h) ==
    /\ fan_pc = "histories"
    /\ history[h].state = "transaction"
    /\ history' = [history EXCEPT ![h].state = "done", ![h].failed = TRUE,
                                  ![h].raised = TRUE]
    /\ fan_pc' = "raised"
    /\ UNCHANGED <<fan_ledger, purchase, fan_holders>>
    /\ UNCHANGED notFanVars

\* lines 416-422: holder["traded_tokens"], holder["token_count"]
JoinHistories ==
    /\ fan_pc = "histories"
    /\ \A h \in Fan : Done(history[h])
    /\ fan_holders' =
          [h \in Fan |-> [fan_holders[h] EXCEPT
                             !.traded_tokens = history[h].tokens,
                             !.token_count = Cardinality(history[h].tokens)]]
    /\ fan_pc' = "analysed"
    /\ UNCHANGED <<fan_ledger, purchase, history>>
    /\ UNCHANGED notFanVars

(***************************************************************************)
(* WalletCheckerBot.on_transaction_detected, called for any buyer while    *)
(* earlier invocations are suspended in analyze_wallet                     *)
(***************************************************************************)
Invocations == 1..MaxInvocations

BuyerWallets == 1..MaxBuyers

NoWallet == 0

\* an invocation that is not running: how the last one ended
Ended(how) == [state |-> "ended", buyer_wallet |-> NoWallet, outcome |-> how]

Analysing(w) == [state |-> "analyzing", buyer_wallet |-> w, outcome |-> "none"]

BotUnused ==
    /\ _analyzing = {}
    /\ invocations = [c \in Invocations |-> Ended("none")]

\* __init__: self._analyzing = set()
BotIdle ==
    /\ _analyzing = {}
    /\ invocations = [c \in Invocations |-> Ended("none")]

\* if buyer_wallet in self._analyzing
InFlightNever(w) == FALSE

InFlight(w) == w \in _analyzing

\* lines 134-147: the test, the add, and the suspension in analyze_wallet;
\* nothing is awaited between the test and the add
OnTransactionDetected(c, w) ==
    /\ invocations[c].state = "ended"
    /\ IF InFlight(w)
       THEN /\ invocations' = [invocations EXCEPT ![c] = Ended("skipped")]
            /\ UNCHANGED _analyzing
       ELSE /\ invocations' = [invocations EXCEPT ![c] = Analysing(w)]
            /\ _analyzing' = _analyzing \cup {w}
    /\ UNCHANGED notBotVars

\* finally: self._analyzing.discard(buyer_wallet)
Finally(c, how) ==
    /\ invocations[c].state = "analyzing"
    /\ _analyzing' = _analyzing \ {invocations[c].buyer_wallet}
    /\ invocations' = [invocations EXCEPT ![c] = Ended(how)]
    /\ UNCHANGED notBotVars

\* analyze_wallet returns; print_wallet_report
AnalysisReported(c) == Finally(c, "reported")

\* except RuntimeError: the error is printed
AnalysisFailed(c) == Finally(c, "error")

\* any other exception (a cancellation, a timeout) passes through the
\* finally clause and leaves the callback
AnalysisRaised(c) == Finally(c, "raised")

(***************************************************************************)
(* Specifications                                                          *)
(***************************************************************************)
ClassifyUnused ==
    /\ old_wallet_threshold = 5
    /\ unique_token_count = 0
    /\ wallet_type = "none"

MonitorUnused == MonitorIdle /\ ledger = 0

Init == MonitorIdle /\ ClassifyUnused /\ HoldersUnused /\ RiskUnused /\ RetrievalUnused
    /\ WalletUnused /\ ExtractUnused /\ TransportsUnused /\ FanUnused /\ BotUnused

Next ==
    \/ NewTx
    \/ Start
    \/ PrimingOk
    \/ PrimingFail
    \/ PrimingTimeout
    \/ Stop
    \/ PollTop
    \/ PollSignaturesOk
    \/ PollSignaturesFail
    \/ PollSignaturesTimeout
    \/ PollNext
    \/ PollTxOk
    \/ PollTxNone
    \/ PollTxTimeout
    \/ PollCallback
    \/ PollSleepDone
    \/ WsTop
    \/ WsConnected
    \/ WsConnectFail
    \/ WsClosed
    \/ WsMessage
    \/ WsTxOk
    \/ WsTxNone
    \/ WsTxTimeout
    \/ WsCallback
    \/ WsSleepDone

Spec == Init /\ [][Next]_vars

\* Scheduling: the event loop resumes a coroutine whose await is over; every
\* RPC request ends, with a result or with an error (aiohttp's total timeout);
\* a sleep ends; a connection attempt ends (open_timeout).  Nothing brings a
\* transaction on chain, a message onto the stream or the stream to its end,
\* and nothing makes the operator call start() or stop().
Scheduling ==
    /\ WF_vars(PrimingOk \/ PrimingFail \/ PrimingTimeout)
    /\ WF_vars(PollTop)
    /\ WF_vars(PollSignaturesOk \/ PollSignaturesFail \/ PollSignaturesTimeout)
    /\ WF_vars(PollNext)
    /\ WF_vars(PollTxOk \/ PollTxNone \/ PollTxTimeout)
    /\ WF_vars(PollCallback)
    /\ WF_vars(PollSleepDone)
    /\ WF_vars(WsTop)
    /\ WF_vars(WsConnected \/ WsConnectFail)
    /\ WF_vars(WsTxOk \/ WsTxNone \/ WsTxTimeout)
    /\ WF_vars(WsCallback)
    /\ WF_vars(WsSleepDone)

\* a transaction lands, on a chain of MaxLiveSigs transactions at most
LiveNewTx == NewTx /\ ledger < MaxLiveSigs

NextLive ==
    \/ LiveNewTx
    \/ Start
    \/ PrimingOk
    \/ PrimingFail
    \/ PrimingTimeout
    \/ Stop
    \/ PollTop
    \/ PollSignaturesOk
    \/ PollSignaturesFail
    \/ PollSignaturesTimeout
    \/ PollNext
    \/ PollTxOk
    \/ PollTxNone
    \/ PollTxTimeout
    \/ PollCallback
    \/ PollSleepDone
    \/ WsTop
    \/ WsConnected
    \/ WsConnectFail
    \/ WsClosed
    \/ WsMessage
    \/ WsTxOk
    \/ WsTxNone
    \/ WsTxTimeout
    \/ WsCallback
    \/ WsSleepDone

SpecLive == Init /\ [][NextLive]_vars /\ Scheduling

InitClassify == ClassifyIdle /\ MonitorUnused /\ HoldersUnused /\ RiskUnused /\ RetrievalUnused
    /\ WalletUnused /\ ExtractUnused /\ TransportsUnused /\ FanUnused /\ BotUnused

NextClassify == ClassifyWallet

SpecClassify == InitClassify /\ [][NextClassify]_vars

InitHolders == HoldersIdle /\ MonitorUnused /\ ClassifyUnused /\ RiskUnused /\ RetrievalUnused
    /\ WalletUnused /\ ExtractUnused /\ TransportsUnused /\ FanUnused /\ BotUnused

NextHolders == AnalyzeHolderSimilarities

SpecHolders == InitHolders /\ [][NextHolders]_vars

InitGrouping == GroupingIdle /\ MonitorUnused /\ ClassifyUnused /\ RiskUnused /\ RetrievalUnused
    /\ WalletUnused /\ ExtractUnused /\ TransportsUnused /\ FanUnused /\ BotUnused

NextGrouping ==
    \/ AnalyzeHolderSimilarities
    \/ FormatHoldersOutput

SpecGrouping == InitGrouping /\ [][NextGrouping]_vars

InitRisk == RiskIdle /\ MonitorUnused /\ ClassifyUnused /\ HoldersUnused /\ RetrievalUnused
    /\ WalletUnused /\ ExtractUnused /\ TransportsUnused /\ FanUnused /\ BotUnused

NextRisk == CalculateRiskScore

SpecRisk == InitRisk /\ [][NextRisk]_vars

InitRetrieval ==
    RetrievalIdle /\ MonitorUnused /\ ClassifyUnused /\ HoldersUnused /\ RiskUnused
    /\ WalletUnused /\ ExtractUnused /\ TransportsUnused /\ FanUnused /\ BotUnused

NextRetrieval ==
    \/ GetTokenLargestAccounts
    \/ GetTokenLargestAccountsFail
    \/ ProcessAccount
    \/ ReturnTopHolders

SpecRetrieval == InitRetrieval /\ [][NextRetrieval]_vars

InitWallet ==
    WalletIdle /\ MonitorUnused /\ ClassifyUnused /\ HoldersUnused /\ RiskUnused
    /\ RetrievalUnused /\ ExtractUnused /\ TransportsUnused /\ FanUnused /\ BotUnused

NextWallet ==
    \/ WalletNewTx
    \/ CountSignaturesOk
    \/ CountSignaturesFail
    \/ OldestTxOk
    \/ OldestTxFail
    \/ ScanTxOk
    \/ ScanTxEmpty
    \/ ScanTxFail
    \/ TotalSignaturesOk
    \/ TotalSignaturesFail
    \/ ReturnWalletInfo

SpecWallet == InitWallet /\ [][NextWallet]_vars

InitExtract ==
    ExtractIdle /\ MonitorUnused /\ ClassifyUnused /\ HoldersUnused /\ RiskUnused
    /\ RetrievalUnused /\ WalletUnused /\ TransportsUnused /\ FanUnused /\ BotUnused

NextExtract == ExtractBuyerWallets

SpecExtract == InitExtract /\ [][NextExtract]_vars

InitTransports ==
    TransportsIdle /\ MonitorUnused /\ ClassifyUnused /\ HoldersUnused /\ RiskUnused
    /\ RetrievalUnused /\ WalletUnused /\ ExtractUnused /\ FanUnused /\ BotUnused

NextTransports ==
    \/ Arrive
    \/ PollHandle
    \/ PushHandle

SpecTransports == InitTransports /\ [][NextTransports]_vars

InitFan ==
    FanIdle /\ MonitorUnused /\ ClassifyUnused /\ HoldersUnused /\ RiskUnused
    /\ RetrievalUnused /\ WalletUnused /\ ExtractUnused /\ TransportsUnused /\ BotUnused

NextFan ==
    \/ GatherPurchases
    \/ \E h \in Fan : PurchaseStart(h)
    \/ \E h \in Fan : PurchaseSignaturesOk(h)
    \/ \E h \in Fan : PurchaseSignaturesFail(h)
    \/ \E h \in Fan : PurchaseSignaturesTimeout(h)
    \/ \E h \in Fan : PurchaseTxOk(h)
    \/ \E h \in Fan : PurchaseTxFail(h)
    \/ \E h \in Fan : PurchaseTxTimeout(h)
    \/ JoinPurchases
    \/ \E h \in Fan : HistoryStart(h)
    \/ \E h \in Fan : HistorySignaturesOk(h)
    \/ \E h \in Fan : HistorySignaturesFail(h)
    \/ \E h \in Fan : HistorySignaturesTimeout(h)
    \/ \E h \in Fan : HistoryTxOk(h)
    \/ \E h \in Fan : HistoryTxFail(h)
    \/ \E h \in Fan : HistoryTxTimeout(h)
    \/ JoinHistories

SpecFan == InitFan /\ [][NextFan]_vars

InitBot ==
    BotIdle /\ MonitorUnused /\ ClassifyUnused /\ HoldersUnused /\ RiskUnused
    /\ RetrievalUnused /\ WalletUnused /\ ExtractUnused /\ TransportsUnused /\ FanUnused

NextBot ==
    \/ \E c \in Invocations, w \in BuyerWallets : OnTransactionDetected(c, w)
    \/ \E c \in Invocations : AnalysisReported(c)
    \/ \E c \in Invocations : AnalysisFailed(c)
    \/ \E c \in Invocations : AnalysisRaised(c)

SpecBot == InitBot /\ [][NextBot]_vars

NextRun ==
    \/ NewTx
    \/ RunStart
    \/ RunCleanup
    \/ PrimingOk
    \/ PrimingFail
    \/ PrimingTimeout
    \/ Stop
    \/ PollTop
    \/ PollSignaturesOk
    \/ PollSignaturesFail
    \/ PollSignaturesTimeout
    \/ PollNext
    \/ PollTxOk
    \/ PollTxNone
    \/ PollTxTimeout
    \/ PollCallback
    \/ PollSleepDone
    \/ WsTop
    \/ WsConnected
    \/ WsConnectFail
    \/ WsClosed
    \/ WsMessage
    \/ WsTxOk
    \/ WsTxNone
    \/ WsTxTimeout
    \/ WsCallback
    \/ WsSleepDone

SpecRun == Init /\ [][NextRun]_vars

(***************************************************************************)
(* C1: for every count c >= 0 and every threshold t the analyzer can be    *)
(* constructed with, the tier is FRESH iff c = 0, OLD iff c >= t and       *)
(* SEMI_NEW iff 0 < c < t.                                                 *)
(***************************************************************************)
TierIff(c, t, tier) ==
    /\ tier = "FRESH" <=> c = 0
    /\ tier = "OLD" <=> c >= t
    /\ tier = "SEMI_NEW" <=> (0 < c /\ c < t)

\* C1 as claimed, for every threshold
C1_TierIffEveryThreshold ==
    wallet_type # "none" =>
        TierIff(unique_token_count, old_wallet_threshold, wallet_type)

\* C1 amended: the same for every threshold t >= 1
C1_TierIffPositiveThreshold ==
    (wallet_type # "none" /\ old_wallet_threshold >= 1) =>
        TierIff(unique_token_count, old_wallet_threshold, wallet_type)

C1_Witness ==
    /\ wallet_type = "OLD"
    /\ old_wallet_threshold >= 1
    /\ unique_token_count = old_wallet_threshold

(***************************************************************************)
(* C2: a signature presented to the monitor twice is fetched once and      *)
(* handed to the callback once per buyer; the second presentation causes   *)
(* no transaction fetch and no callback.                                   *)
(***************************************************************************)
C2_SignatureFetchedAndDeliveredOnce ==
    \A s \in Sigs :
        /\ fetches[s] <= 1
        /\ \A b \in Owners : calls[<<s, b>>] <= 1

(***************************************************************************)
(* C3: in both transports the processed-signature set never stays above    *)
(* its ceiling: an insertion that takes it above MAX_PROCESSED cuts it to  *)
(* at most KEEP_PROCESSED in the same step.                                *)
(***************************************************************************)
C3_ProcessedSetBounded == Cardinality(_processed_signatures) <= MAX_PROCESSED

(***************************************************************************)
(* C4: a trim keeps the most recently inserted signatures: the signature   *)
(* just inserted and the already-seen signatures of the list being         *)
(* processed are still in the set after the insertion check, so that none  *)
(* of them is fetched and delivered again.                                 *)
(***************************************************************************)
C4_TrimKeepsRecentSignatures ==
    [][(pc = "poll_for" /\ pc' = "poll_tx") =>
          /\ signature' \in _processed_signatures'
          /\ \A s \in Range(signatures) :
                s \in _processed_signatures => s \in _processed_signatures']_vars

(***************************************************************************)
(* C5: no signature that was among the most recent ones of the token when  *)
(* start() was called is ever passed to the callback.                      *)
(***************************************************************************)
\* C5 as claimed: whatever the outcome of the priming fetch
C5_HistoricNeverReported == historic \cap reported = {}

\* C5 restricted to starts whose priming fetch succeeded: this part holds
C5_HistoricNeverReportedWhenPrimed ==
    primed_ok => historic \cap reported = {}

C5_Witness ==
    /\ primed_ok
    /\ ~use_websocket
    /\ historic # {}
    /\ reported # {}

(***************************************************************************)
(* C6: while the running flag is set, every way in which a connection      *)
(* attempt or the stream ends leads to the 5 s delay before the next       *)
(* attempt: the subscribe loop neither exits nor reconnects at once.       *)
(***************************************************************************)
C6_StreamEndLeadsToDelay ==
    [][(/\ _running
        /\ pc \in {"ws_connecting", "ws_recv"}
        /\ pc' \notin {"ws_connecting", "ws_recv", "ws_tx"}) =>
            pc' = "ws_sleep"]_vars

(***************************************************************************)
(* C7: once a signature's processing is over, the callback has been        *)
(* invoked exactly once for each buyer of its transaction, also when the   *)
(* callback failed for an earlier buyer of the same signature.             *)
(***************************************************************************)
Delivered(s) == \E b \in Owners : calls[<<s, b>>] > 0

C7_EveryBuyerExactlyOnce ==
    \A s \in Sigs :
        (Delivered(s) /\ s # signature) =>
            \A b \in BuyerSet(Tx(s)) : calls[<<s, b>>] = 1

(***************************************************************************)
(* C8: while the stop flag is set no new fetch cycle begins: the poll loop *)
(* issues no signature-list fetch, and a message received by the push loop *)
(* leads to no transaction fetch and no callback.                          *)
(***************************************************************************)
C8_NoNewCycleAfterStop ==
    [][~_running =>
          /\ ~(pc # "poll_fetch" /\ pc' = "poll_fetch")
          /\ pc = "ws_recv" =>
                (pc' \in {"ws_recv", "ws_top"} /\ fetches' = fetches /\ calls' = calls)]_vars

C8_Witness == halted = {"poll", "push"}

(***************************************************************************)
(* C9: for every unordered pair of distinct holders an edge is recorded    *)
(* iff both trading sets are non-empty and share at least 3 mints; the     *)
(* edge's overlap is that intersection and its count the intersection's    *)
(* size; exchanging the two holders in the list changes no edge.           *)
(***************************************************************************)
EdgeSet(P) ==
    {[key |-> P[k].key, common_tokens |-> P[k].common_tokens, count |-> P[k].count] :
        k \in DOMAIN P}

Swapped(hs, i, j) ==
    [k \in DOMAIN hs |-> IF k = i THEN hs[j] ELSE IF k = j THEN hs[i] ELSE hs[k]]

PairEdgeCorrect(i, j) ==
    LET common == holders[i].traded_tokens \cap holders[j].traded_tokens
        similar == /\ holders[i].traded_tokens # {}
                   /\ holders[j].traded_tokens # {}
                   /\ Cardinality(common) >= 3
        key == {holders[i].owner, holders[j].owner}
    IN  /\ (key \in Keys(patterns)) <=> similar
        /\ \A e \in EdgeSet(patterns) :
              e.key = key => (e.common_tokens = common /\ e.count = Cardinality(common))
        /\ EdgeSet(CommonPatterns(Swapped(holders, i, j))) = EdgeSet(patterns)

AllPairsEdgeCorrect ==
    \A i, j \in DOMAIN holders : i < j => PairEdgeCorrect(i, j)

\* holders that share an owner address carry the same trading set
OwnersConsistent ==
    \A i, j \in DOMAIN holders :
        holders[i].owner = holders[j].owner =>
            holders[i].traded_tokens = holders[j].traded_tokens

\* C9 as claimed, for every holder list
C9_EdgeIffOverlap == analysed => AllPairsEdgeCorrect

\* C9 restricted to lists whose holders of one owner carry the same trading
\* set: this part holds
C9_EdgeIffOverlapConsistentOwners ==
    (analysed /\ OwnersConsistent) => AllPairsEdgeCorrect

C9_Witness ==
    /\ analysed
    /\ OwnersConsistent
    /\ \E i, j \in DOMAIN holders :
          /\ holders[i].traded_tokens = {1, 2, 3}
          /\ holders[j].traded_tokens = {1, 2, 3, 4}
          /\ \E e \in EdgeSet(patterns) :
                e.key = {holders[i].owner, holders[j].owner} /\ e.count = 3
    /\ \E i, j \in DOMAIN holders :
          /\ holders[i].owner # holders[j].owner
          /\ Cardinality(holders[i].traded_tokens \cap holders[j].traded_tokens) = 2
          /\ {holders[i].owner, holders[j].owner} \notin Keys(patterns)

(***************************************************************************)
(* C10: two wallets joined by a path of similarity edges are members of    *)
(* the same group, with or without a direct edge between them, and every   *)
(* group returned has at least 2 members.                                  *)
(***************************************************************************)
Linked(a, b) == a # b /\ {a, b} \in Keys(patterns)

RECURSIVE Reachable(_)
Reachable(S) ==
    LET more == S \cup {b \in Wallets : \E a \in S : Linked(a, b)}
    IN  IF more = S THEN S ELSE Reachable(more)

C10_PathConnectedSameGroup ==
    analysed =>
        /\ \A a, b \in Wallets :
              (a # b /\ b \in Reachable({a})) =>
                  \E k \in DOMAIN groups : {a, b} \subseteq groups[k].wallets
        /\ \A k \in DOMAIN groups :
              /\ groups[k].wallet_count >= 2
              /\ groups[k].wallet_count = Cardinality(groups[k].wallets)

C10_Witness ==
    /\ analysed
    /\ Len(patterns) = 2
    /\ \E k \in DOMAIN groups : groups[k].wallet_count = 3
    /\ \E a, b \in Wallets : a # b /\ ~Linked(a, b) /\ b \in Reachable({a})

(***************************************************************************)
(* C11: the common-token set of every returned group is the intersection   *)
(* of the trading sets of all its members and its common-token count the   *)
(* size of that intersection; holders A:{m1,m2,m3,m4}, B:{m1,m2,m3,m5},    *)
(* C:{m9} give exactly one group {A,B} with common tokens {m1,m2,m3}.      *)
(***************************************************************************)
MembersOf(group) == {i \in DOMAIN holders : holders[i].owner \in group}

InAllOf(members) ==
    {m \in AllMints : \A i \in members : m \in holders[i].traded_tokens}

TradingMembersOf(group) ==
    {i \in MembersOf(group) : holders[i].traded_tokens # {}}

ScenarioGroupCorrect ==
    \A a, b, c \in DOMAIN holders :
        (/\ Cardinality({holders[a].owner, holders[b].owner, holders[c].owner}) = 3
         /\ holders[a].traded_tokens = {1, 2, 3, 4}
         /\ holders[b].traded_tokens = {1, 2, 3, MINT_B}
         /\ holders[c].traded_tokens = {MINT_C})
        => /\ Len(groups) = 1
           /\ groups[1].wallets = {holders[a].owner, holders[b].owner}
           /\ groups[1].common_tokens = {1, 2, 3}
           /\ groups[1].common_token_count = 3

\* C11 as claimed: the intersection over all members, reported whole
C11_CommonTokensAreIntersection ==
    analysed =>
        /\ \A k \in DOMAIN groups :
              LET common == InAllOf(MembersOf(groups[k].wallets))
              IN  /\ groups[k].common_tokens = common
                  /\ groups[k].common_token_count = Cardinality(common)
        /\ ScenarioGroupCorrect

\* C11 amended: the intersection over the members with a non-empty trading
\* set, of which the group shows at most TOP_COMMON mints
C11_CommonTokensAreTopOfIntersection ==
    analysed =>
        /\ \A k \in DOMAIN groups :
              LET common == InAllOf(TradingMembersOf(groups[k].wallets))
              IN  /\ groups[k].common_token_count = Cardinality(common)
                  /\ groups[k].common_tokens \subseteq common
                  /\ Cardinality(groups[k].common_tokens)
                        = Min(TOP_COMMON, Cardinality(common))
        /\ ScenarioGroupCorrect

C11_Witness ==
    /\ analysed
    /\ \A i, j \in DOMAIN holders : i # j => holders[i].owner # holders[j].owner
    /\ {holders[i].traded_tokens : i \in DOMAIN holders}
          = {{1, 2, 3, 4}, {1, 2, 3, MINT_B}, {MINT_C}}
    /\ Len(groups) = 1
    /\ groups[1].common_tokens = {1, 2, 3}

(***************************************************************************)
(* C12: the risk score is the sum of four sub-scores, one bracket at most  *)
(* per factor: diversity (0 tokens: 25; 1-2: 20; 3-5: 10; more: 0),        *)
(* concentration (>= 10% of the combined balance: 30; >= 5%: 20; >= 2%:    *)
(* 10), group coordination for a holder in a group (size >= 3 and common   *)
(* >= 7: 30; size >= 2 or common >= 5: 20; common >= 3: 10) and mismatch   *)
(* (balance > 1,000,000 and diversity <= 1: 15; balance < 100 and          *)
(* diversity >= 10: 10); the score lies in 0..100, and a holder with 0     *)
(* tokens, 12% of the total, no group and balance 2,000,000 scores 70.     *)
(***************************************************************************)
DiversityPoints ==
    CASE holder.token_count = 0 -> 25
      [] holder.token_count \in 1..2 -> 20
      [] holder.token_count \in 3..5 -> 10
      [] holder.token_count > 5 -> 0

CombinedBalance == SumBalances(all_holders)

\* the holder's share of the combined balance is at least k percent
ShareAtLeast(k) == 100 * holder.balance >= k * CombinedBalance

ConcentrationPoints ==
    CASE ShareAtLeast(10) -> 30
      [] ~ShareAtLeast(10) /\ ShareAtLeast(5) -> 20
      [] ~ShareAtLeast(5) /\ ShareAtLeast(2) -> 10
      [] ~ShareAtLeast(2) -> 0

GroupsOfHolder ==
    IF similarity_analysis = None THEN {}
    ELSE {similarity_analysis.groups[k] : k \in {n \in DOMAIN similarity_analysis.groups :
                 holder.owner \in similarity_analysis.groups[n].wallets}}

CoordinationPoints ==
    IF GroupsOfHolder = {} THEN 0
    ELSE LET g == CHOOSE x \in GroupsOfHolder : TRUE
             size == g.wallet_count
             common == g.common_token_count
         IN  CASE size >= 3 /\ common >= 7 -> 30
               [] ~(size >= 3 /\ common >= 7) /\ (size >= 2 \/ common >= 5) -> 20
               [] size < 2 /\ common < 5 /\ common >= 3 -> 10
               [] size < 2 /\ common < 3 -> 0

MismatchPoints ==
    CASE holder.balance > 1000000 /\ holder.token_count <= 1 -> 15
      [] holder.balance < 100 /\ holder.token_count >= 10 -> 10
      [] OTHER -> 0

\* a holder with no trading history, 12% of the total, no group, balance 2,000,000
SeventyPointHolder ==
    /\ holder.token_count = 0
    /\ holder.balance = 2000000
    /\ ShareAtLeast(12) /\ ~ShareAtLeast(13)
    /\ GroupsOfHolder = {}

C12_ScoreIsSumOfFactors ==
    risk_data # None =>
        /\ risk_data.score = DiversityPoints + ConcentrationPoints
                                + CoordinationPoints + MismatchPoints
        /\ risk_data.score \in 0..100
        /\ SeventyPointHolder => risk_data.score = 70

C12_Witness ==
    /\ risk_data # None
    /\ SeventyPointHolder
    /\ risk_data.score = 70
    /\ Len(risk_data.factors) = 3

(***************************************************************************)
(* C13: the level returned with a score is CRITICAL iff score >= 70, HIGH  *)
(* iff 50 <= score < 70, MEDIUM iff 30 <= score < 50 and LOW iff           *)
(* score < 30.                                                             *)
(***************************************************************************)
C13_LevelIffScoreBand ==
    risk_data # None =>
        /\ risk_data.level = "CRITICAL" <=> risk_data.score >= 70
        /\ risk_data.level = "HIGH" <=> (50 <= risk_data.score /\ risk_data.score < 70)
        /\ risk_data.level = "MEDIUM" <=> (30 <= risk_data.score /\ risk_data.score < 50)
        /\ risk_data.level = "LOW" <=> risk_data.score < 30

\* scores on the lower bound of every band, and the extreme ones
C13_Witness ==
    /\ risk_data # None
    /\ risk_data.score = 50
    /\ risk_data.level = "HIGH"

(***************************************************************************)
(* C15: holder retrieval returns at most `limit` holders and raises no     *)
(* error when the provider returns fewer accounts than requested; an       *)
(* account whose owner lookup fails or whose owner is filtered out only    *)
(* reduces the result and never makes the retrieval fail.                  *)
(***************************************************************************)
\* the retrieval was left by an exception although the provider answered
\* the request for the largest accounts
RaisedOverAnAccount == ret_pc = "raised" /\ acc_i >= 1

C15_RetrievalToleratesAccounts ==
    /\ ret_pc = "returned" => Len(top_holders) <= holder_limit
    /\ ~RaisedOverAnAccount

\* the part of C15 that holds: what is returned is within the limit, also
\* with fewer accounts than requested
C15_ReturnedWithinLimit ==
    ret_pc = "returned" =>
        /\ Len(top_holders) <= holder_limit
        /\ Len(top_holders) <= Len(accounts)

(***************************************************************************)
(* C16: when the retrieval of the wallet's signature list fails, analyze   *)
(* returns no WalletRecord for the wallet, in particular no FRESH record   *)
(* with unique-token count 0: the failure reaches the caller.              *)
(***************************************************************************)
C16_SignatureFailurePropagates == sigs_failed => wa_pc # "returned"

(***************************************************************************)
(* C17: a failed request for an individual transaction (the oldest one or  *)
(* one of the scan) is skipped and the scan goes on with the remaining     *)
(* transactions: analyze still returns a WalletRecord, whose unique-token  *)
(* count is the number of distinct mints, other than the current token,    *)
(* of the scanned transactions whose detail arrived.                       *)
(***************************************************************************)
MintsFetched ==
    UNION {wallet_txs[wa_signatures[i]] \ {token_address} : i \in fetched_ok}

RECURSIVE BalanceOf(_, _)
\* an owner's balance of the watched mint on one side of the transaction:
\* what the owner's token accounts of that mint hold together
BalanceOf(bals, owner) ==
    IF bals = << >> THEN 0
    ELSE (IF Head(bals).mint = token_address /\ Head(bals).owner = owner
          THEN Head(bals).amount ELSE 0) + BalanceOf(Tail(bals), owner)

OwnersWithIncrease ==
    {owner \in Owners :
        BalanceOf(transaction.post, owner) > BalanceOf(transaction.pre, owner)}

\* no owner has two records of the watched mint on one side
OneRecordPerOwner ==
    \A bals \in {transaction.pre, transaction.post} :
        \A i, j \in DOMAIN bals :
            (bals[i].mint = token_address /\ bals[j].mint = token_address
                /\ bals[i].owner = bals[j].owner) => i = j

C19_BuyersAreOwnersWithIncrease ==
    extract_done =>
        /\ Range(extracted) = OwnersWithIncrease
        /\ Len(extracted) = Cardinality(Range(extracted))

\* the part of C19 that holds: transactions in which every owner has one
\* token account of the watched mint at most
C19_BuyersWhenOneRecordPerOwner ==
    (extract_done /\ OneRecordPerOwner) =>
        /\ Range(extracted) = OwnersWithIncrease
        /\ Len(extracted) = Cardinality(Range(extracted))

(***************************************************************************)
(* C20: over any sequence of start, poll cycles, push notifications, stop  *)
(* and a further start, the processed-signature set only grows, except at  *)
(* the eviction step, which is taken only when the set has exceeded its    *)
(* ceiling; no other step removes a signature from the set.                *)
(***************************************************************************)
\* the step inserts a signature into a set that thereby exceeds the ceiling
EvictionStep ==
    /\ pc = "poll_for"
    /\ Cardinality(_processed_signatures) + 1 > MAX_PROCESSED
    /\ Cardinality(_processed_signatures') <= KEEP_PROCESSED

\* start() replaces the set by the signatures of its priming fetch
PrimingStep ==
    /\ pc = "priming"
    /\ _processed_signatures' = Range(Latest(PRIME_LIMIT))

\* C20 as claimed
C20_SetOnlyGrowsExceptEviction ==
    [][(_processed_signatures \subseteq _processed_signatures') \/ EvictionStep]_vars

\* C20 amended: a successful priming fetch of start() replaces the set
C20_SetOnlyGrowsExceptEvictionAndPriming ==
    [][(_processed_signatures \subseteq _processed_signatures')
          \/ EvictionStep \/ PrimingStep]_vars

\* a second start() has primed the set, which has lost a signature that was
\* processed before
C20_Witness ==
    /\ starts = 2
    /\ primed_ok
    /\ \E s \in Sigs : fetches[s] > 0 /\ s \notin _processed_signatures
    /\ Cardinality(_processed_signatures) = PRIME_LIMIT

(***************************************************************************)
(* C18: given the same entries and the same getTransaction outcomes, the   *)
(* poll loop and the message loop take the same decision on every entry    *)
(* (skip it when its signature is seen or absent, else mark it seen, fetch *)
(* it and call back per buyer) and leave the same processed-signature set. *)
(***************************************************************************)
C18_TransportsAgree ==
    (poll_handled /\ push_handled) =>
        /\ poll_decision = push_decision
        /\ poll_processed = push_processed

(***************************************************************************)
(* C22: when the signature list fetched for the wallet is empty, analyze   *)
(* returns a record that is FRESH with unique-token count 0, total         *)
(* transaction count 0, no first-transaction time and no funding wallet.   *)
(***************************************************************************)
\* the signature list of line 164 arrived and was empty
EmptySignatureList == ~sigs_failed /\ wa_signatures = << >>

C22_EmptyListGivesTrivialFresh ==
    (wa_pc = "returned" /\ EmptySignatureList) =>
        /\ wallet_info.wallet_type = "FRESH"
        /\ wallet_info.unique_token_count = 0
        /\ wallet_info.total_transactions = 0
        /\ wallet_info.first_transaction_time = "None"
        /\ wallet_info.initial_funder = "None"

\* the part of C22 that holds: everything but the total, which comes from
\* the second request for the signature list
C22_EmptyListGivesFresh ==
    (wa_pc = "returned" /\ EmptySignatureList) =>
        /\ wallet_info.wallet_type = "FRESH"
        /\ wallet_info.unique_token_count = 0
        /\ wallet_info.first_transaction_time = "None"
        /\ wallet_info.initial_funder = "None"

(***************************************************************************)
(* C26: between any two consecutive transaction-detail requests of the     *)
(* diversity scan there is a pacing delay, whatever the outcome of the     *)
(* earlier request (success, empty result, missing metadata, RPC failure). *)
(***************************************************************************)
\* the step issues the request of the scan for a signature after the first
LaterScanRequest == wa_pc = "scan" /\ scan_i > 1 /\ scan_i' = scan_i + 1

C26_DelayBetweenScanRequests == [][LaterScanRequest => slept]_vars

\* the part of C26 that holds: the delay after a request whose detail
\* arrived with its metadata
C26_DelayAfterDetailArrived ==
    [][(LaterScanRequest /\ (scan_i - 1) \in fetched_ok) => slept]_vars

(***************************************************************************)
(* C27: the groups returned are pairwise disjoint and cover exactly the    *)
(* wallets that have a similarity edge to another wallet: every such       *)
(* wallet is a member of exactly one group, a wallet without an edge is a  *)
(* member of none.                                                         *)
(***************************************************************************)
HasEdge(a) == \E b \in GroupedWallets : a # b /\ {a, b} \in Keys(patterns)

GroupsWith(a) == {k \in DOMAIN groups : a \in groups[k].wallets}

C27_GroupsPartitionLinkedWallets ==
    analysed =>
        /\ \A k, l \in DOMAIN groups :
              k # l => groups[k].wallets \cap groups[l].wallets = {}
        /\ \A a \in GroupedWallets :
              Cardinality(GroupsWith(a)) = IF HasEdge(a) THEN 1 ELSE 0
        /\ \A k \in DOMAIN groups : groups[k].wallets \subseteq GroupedWallets

\* two groups side by side
C27_Witness ==
    /\ analysed
    /\ Len(groups) = 2
    /\ \A a \in GroupedWallets : HasEdge(a)

\* one group of three and a wallet that trades without an edge
C27_WitnessUnlinked ==
    /\ analysed
    /\ Len(groups) = 1
    /\ groups[1].wallet_count = 3
    /\ \E i \in DOMAIN holders :
          holders[i].traded_tokens # {} /\ ~HasEdge(holders[i].owner)

(***************************************************************************)
(* C28: for every holder that is a member of a group produced by the       *)
(* grouping (every such group has 2 members at least) the coordination     *)
(* factor adds exactly 20 or 30 points to the risk score, never 10 and     *)
(* never 0, whatever the group's common-token count, also below 3 for a    *)
(* group linked only transitively; the first group that holds the holder   *)
(* is the one counted.                                                     *)
(***************************************************************************)
\* what the score of holder i holds beyond the three other factors
CoordinationShare(i) ==
    LET h == Scored(holders[i])
        total == SumBalances([k \in DOMAIN holders |-> Scored(holders[k])])
    IN  holders_risk_data[i].score
            - DiversityFactor(h.token_count).points
            - ConcentrationFactor(h.balance, total).points
            - MismatchFactor(h.balance, h.token_count).points

FirstGroupOf(i) ==
    LET with == {k \in DOMAIN groups : holders[i].owner \in groups[k].wallets}
    IN  groups[CHOOSE k \in with : \A l \in with : k <= l]

InSomeGroup(i) == \E k \in DOMAIN groups : holders[i].owner \in groups[k].wallets

C28_GroupMemberScores20Or30 ==
    holders_risk_data # << >> =>
        /\ \A k \in DOMAIN groups : groups[k].wallet_count >= 2
        /\ \A i \in DOMAIN holders :
              InSomeGroup(i) =>
                  /\ CoordinationShare(i) \in {20, 30}
                  /\ CoordinationShare(i) = 30
                        <=> (/\ FirstGroupOf(i).wallet_count >= 3
                             /\ FirstGroupOf(i).common_token_count >= 7)

\* a group of three joined by a bridge, with no mint common to the three:
\* its members have the 20 points
C28_Witness ==
    /\ holders_risk_data # << >>
    /\ \E i \in DOMAIN holders :
          /\ InSomeGroup(i)
          /\ FirstGroupOf(i).wallet_count = 3
          /\ FirstGroupOf(i).common_token_count < 3
          /\ CoordinationShare(i) = 20

\* a group of three with 7 mints in common: 30 points
C28_WitnessHigh ==
    /\ holders_risk_data # << >>
    /\ \E i \in DOMAIN holders :
          /\ InSomeGroup(i)
          /\ FirstGroupOf(i).common_token_count = 7
          /\ CoordinationShare(i) = 30

(***************************************************************************)
(* C29: after stop() is called on a running monitor, start() eventually    *)
(* returns, in poll mode and in push mode, without a further notification  *)
(* arriving on the stream and without the connection dropping.             *)
(***************************************************************************)
\* stop() has been called and start() has not returned yet
Stopping == ~_running /\ pc # "idle"

C29_StopLeadsToReturn == Stopping ~> (pc = "idle")

\* the part of C29 that holds: poll mode
C29_StopLeadsToReturnPolling == (Stopping /\ ~use_websocket) ~> (pc = "idle")

(***************************************************************************)
(* C30: in poll mode a failure of the signature-list fetch or of a         *)
(* transaction-detail fetch never ends the polling loop while the monitor  *)
(* is running: after a failed signature-list fetch the loop waits one poll *)
(* interval and fetches again, after a failed transaction fetch it goes on *)
(* with the next signature of the same cycle.                              *)
(***************************************************************************)
\* however a fetch of the poll loop ends, the loop is where it goes on:
\* the for loop after the list arrived, the sleep after the list failed;
\* the next signature or the callbacks after a transaction fetch
C30_FetchFailureKeepsPolling ==
    [][/\ pc = "poll_fetch" => pc' \in {"poll_fetch", "poll_for", "poll_sleep"}
       /\ pc = "poll_tx" => pc' \in {"poll_tx", "poll_for", "poll_cb"}
       /\ pc = "poll_sleep" => pc' \in {"poll_sleep", "poll_top"}
       /\ (pc = "poll_top" /\ _running) => pc' \in {"poll_top", "poll_fetch"}]_vars

\* the part of C30 that holds: the failures _rpc_call raises as RuntimeError
C30_RuntimeErrorKeepsPolling ==
    [][/\ PollSignaturesFail => pc' = "poll_sleep"
       /\ PollTxNone => (pc' = "poll_for" /\ idx' = idx + 1)
       /\ pc = "poll_sleep" => pc' \in {"poll_sleep", "poll_top"}
       /\ (pc = "poll_top" /\ _running) => pc' \in {"poll_top", "poll_fetch"}]_vars

(***************************************************************************)
(* C23: the per-holder first-purchase lookups and the per-holder           *)
(* trading-history lookups are both issued concurrently as independent     *)
(* tasks (a later holder's lookup starts before an earlier holder's lookup *)
(* has finished), and the results are joined only once all lookups have    *)
(* completed.                                                              *)
(***************************************************************************)
\* the lookups of a batch are all under way before any of them has finished
IssuedTogether(batch) ==
    \A h, k \in Fan : Done(batch[h]) => batch[k].state # "created"

JoinedAfterAll ==
    /\ fan_pc \in {"returned", "histories", "analysed"} =>
          \A h \in Fan : Done(purchase[h])
    /\ fan_pc = "analysed" => \A h \in Fan : Done(history[h])

C23_BothFanOutsConcurrent ==
    /\ IssuedTogether(purchase)
    /\ IssuedTogether(history)
    /\ JoinedAfterAll

\* the part of C23 that holds: the first-purchase lookups, and both joins
C23_PurchaseFanOutConcurrent ==
    /\ IssuedTogether(purchase)
    /\ JoinedAfterAll

\* the trading-history lookups run one after the other: never two of them
\* between their start and their end
C23_HistoryLookupsInTurn ==
    \A h, k \in Fan :
        (h # k /\ history[h].state \in {"signatures", "transaction"}) =>
            history[k].state \in {"created", "done"}

(***************************************************************************)
(* C24: a failure of one holder's first-purchase lookup or trading-history *)
(* lookup never fails the batch and never changes another holder's result; *)
(* the failed holder gets the neutral default (purchase time None shown as *)
(* "Unknown", or an empty trading set with count 0), every other holder    *)
(* the result its own lookup produced.                                     *)
(***************************************************************************)
\* what the lookups find when no request fails
FirstPurchase(txs) ==
    IF \E k \in DOMAIN txs : txs[k].token
    THEN CHOOSE k \in DOMAIN txs :
             txs[k].token /\ \A j \in DOMAIN txs : txs[j].token => k <= j
    ELSE NoTime

TradedMints(txs) == {txs[k].mint : k \in DOMAIN txs}

Clean(c) == ~c.failed /\ ~c.skipped

PurchaseResultsOwn ==
    fan_pc \in {"returned", "histories", "analysed", "raised"} =>
        \A h \in Fan :
            /\ purchase[h].failed =>
                  /\ fan_holders[h].purchase_time = NoTime
                  /\ fan_holders[h].purchase_time_str = Unknown
            /\ Clean(purchase[h]) =>
                  LET t == FirstPurchase(fan_ledger[h])
                  IN  /\ fan_holders[h].purchase_time = t
                      /\ fan_holders[h].purchase_time_str =
                            IF t = NoTime THEN Unknown ELSE Strftime(t)

HistoryResultsOwn ==
    fan_pc = "analysed" =>
        \A h \in Fan :
            /\ history[h].failed =>
                  /\ fan_holders[h].traded_tokens = {}
                  /\ fan_holders[h].token_count = 0
            /\ Clean(history[h]) =>
                  /\ fan_holders[h].traded_tokens = TradedMints(fan_ledger[h])
                  /\ fan_holders[h].token_count =
                        Cardinality(TradedMints(fan_ledger[h]))

C24_FailureNeverFailsBatch ==
    /\ fan_pc # "raised"
    /\ PurchaseResultsOwn
    /\ HistoryResultsOwn

\* the part of C24 that holds: the results, whenever the batch comes to its end
C24_ResultsOwnWhenJoined ==
    /\ PurchaseResultsOwn
    /\ HistoryResultsOwn

(***************************************************************************)
(* C25: for any interleaving of buyer callbacks at most one analysis per   *)
(* wallet address is in flight; a callback that arrives for an address     *)
(* whose analysis is in flight returns without starting one; the address   *)
(* leaves the in-progress set when its analysis ends, whether it succeeded *)
(* or failed, so the set is empty whenever no callback is running.         *)
(***************************************************************************)
AnalysesOf(w) ==
    {c \in Invocations : invocations[c].state = "analyzing"
                         /\ invocations[c].buyer_wallet = w}

\* the set holds the addresses under analysis, no more and no less
AnalyzingIsInFlight ==
    _analyzing = {w \in BuyerWallets : AnalysesOf(w) # {}}

\* a callback for an address in flight ends at once, as skipped
SkippedWhenInFlight ==
    \A c \in Invocations, w \in BuyerWallets :
        (OnTransactionDetected(c, w) /\ AnalysesOf(w) # {}) =>
            (invocations'[c] = Ended("skipped") /\ _analyzing' = _analyzing)

C25_OneAnalysisPerWallet ==
    /\ [](\A w \in BuyerWallets : Cardinality(AnalysesOf(w)) <= 1)
    /\ []AnalyzingIsInFlight
    /\ []((\A c \in Invocations : invocations[c].state = "ended") => _analyzing = {})
    /\ [][SkippedWhenInFlight]_vars

\* two analyses in flight, a callback skipped for one of their addresses, and
\* an analysis that ended with an exception
C25_Witness ==
    /\ Cardinality(_analyzing) = 2
    /\ \E c, d \in Invocations :
          /\ invocations[c].outcome = "skipped"
          /\ invocations[d].state = "analyzing"

\* a set emptied again after a failure and a success
C25_WitnessEmptied ==
    /\ _analyzing = {}
    /\ \E c, d \in Invocations :
          /\ invocations[c].outcome = "raised"
          /\ invocations[d].outcome = "reported"

(***************************************************************************)
(* C21: the monitor's connection is closed only after its transport loop   *)
(* has observed the stop flag and exited: in no interleaving of the signal *)
(* handler's stop(), the running loop, an in-flight callback and run()'s   *)
(* cleanup is a request issued on a connection that has been closed, nor   *)
(* a fresh connection opened after close().                                *)
(***************************************************************************)
\* the step closes the connection
Closes == _session = "open" /\ _session' = "closed"

====
